---- MODULE Spec2Model ----
(***************************************************************************)
(* Model of the orbis-pfs image stack: the copy-on-write overlay image     *)
(* (CowImage), positional file reads through a block map (pfs_read_at),    *)
(* the PFSC decompressing adapter (PfscImage) and inode block-map          *)
(* resolution (Inode::load_block_map).                                     *)
(*                                                                         *)
(* Offsets are 0-based as in the source; TLA+ sequences are 1-based, so    *)
(* the byte at offset p of a buffer b is b[p + 1].                         *)
(***************************************************************************)
EXTENDS Integers, Sequences, FiniteSets, TLC

VARIABLES
    base,          \* CowImage.base: the bytes of the wrapped image
    overlay,       \* CowImage.overlay: start offset -> modified bytes
    logical_len,   \* CowImage.logical_len
    overlay_lock,  \* RwLock state of CowImage.overlay
    len_lock,      \* RwLock state of CowImage.logical_len
    pc,            \* per thread: position inside read_at / write_at
    call,          \* per thread: the arguments and locals of the running call
    res,           \* per thread: what the last finished call returned
    ref,           \* history: the reference image (writes layered onto base)
    hist,          \* history, per thread: what happened since its call began
    nwrites,       \* history: write_at calls begun by concurrent threads
    touched,       \* history: the offsets that successful writes covered
    pfs,           \* an opened Pfs: image, block_size, one inode's size and block map
    fread,         \* the last File::read_at call on it and what it returned
    source,        \* the bytes of a PFSC stream
    orig,          \* history: the original data the PFSC stream was built from
    pfsc,          \* PfscImage::open(source): the opened image or the error
    pread,         \* the last PfscImage::read_at call and what it returned
    fs,            \* what load_block_map is given: image, block_size, and the build
    inode,         \* an Inode: blocks, direct_blocks, indirect_blocks, signed
    bmap,          \* load_block_map's result for it, once precomputed
    dpfs,          \* the Pfs a Directory belongs to: image, block_size, inode count,
                   \* the directory's block map, and the build
    dirents,       \* history: the dirents written into each block of the directory
    listing,       \* Directory::open's result, once called
    hdesc,         \* history: the superblock fields a buffer was written from
    hbuf,          \* the buffer given to PfsHeader::from_bytes
    parsed,        \* PfsHeader::from_bytes's result, once called
    layer,         \* an Image of one of the five layers
    lread,         \* the last read_at on it
    sbuf,          \* a sector buffer handed to encrypt_sector and decrypt_sector
    disk,          \* history: what the image given to an open function was built from
    args,          \* the open function called and its arguments
    opened,        \* its result: a Pfs or an error, once called
    handles,       \* the Directory and File handles obtained from the Pfs so far
    olisting,      \* the last Directory::open on one of them
    zc             \* the last File::as_slice on one of them

cowVars == <<base, overlay, logical_len, overlay_lock, len_lock, pc, call, res, ref,
             hist, nwrites, touched>>

fileVars == <<pfs, fread>>

pfscVars == <<source, orig, pfsc, pread>>

inodeVars == <<fs, inode, bmap>>
dirVars == <<dpfs, dirents, listing>>
hdrVars == <<hdesc, hbuf, parsed>>
layerVars == <<layer, lread, sbuf>>
openVars == <<disk, args, opened, handles, olisting, zc>>

vars == <<cowVars, fileVars, pfscVars, inodeVars, dirVars, hdrVars, layerVars, openVars>>

----------------------------------------------------------------------------
(* Bounds *)

\* u64::MAX scaled down: offsets and ends live in 0..U64_MAX
U64_MAX == 4
\* longest base image
MaxBaseLen == 2
\* longest data slice handed to write_at
MaxData == 2
\* longest output buffer handed to read_at
MaxBuf == 2
\* write_at calls the concurrent threads make in one run
MaxWrites == 2
\* blocks in the image under a Pfs
MaxBlocks == 3
\* longest block map of a file
MaxMapLen == 2
\* longest original data of a PFSC stream
MaxOrig == 6
\* the largest 32-bit value, scaled down: u32 arithmetic wraps at U32_MAX + 1
U32_MAX == 255
\* largest block count of an inode
MaxBlockCount == 19
\* blocks in the image that holds indirect blocks
MaxImageBlocks == 4
\* most dirents written into one directory
MaxDirents == 3
\* bytes of a directory block, and the record size of the dirents written
\* into it
DirBlockSize == 64
DirentSize == 24
\* inodes of the Pfs a directory is listed in
DirInodeCount == 2
\* most bytes of a buffer after the superblock
MaxHdrExtra == 16
\* bytes of a final, partial sector of an encrypted slice
MaxTail == 5

\* the threads sharing one CowImage: thread 1 calls read_at while thread 2
\* calls write_at
Threads == {1, 2}
Readers == {1}
Writers == {2}
Offsets == 0..U64_MAX
BufLens == 0..MaxBuf

\* base images: bytes 1 and 2 alternating, so that neighbours differ
BaseOf(n) == [i \in 1..n |-> 1 + (i % 2)]
BaseImages == {BaseOf(n) : n \in 0..MaxBaseLen}

\* written data: bytes 3 and 4 alternating, starting with either
DataBytes == {3, 4}
DataOf(v, n) == [i \in 1..n |-> IF i % 2 = 1 THEN v ELSE 7 - v]
WriteData == {DataOf(v, n) : v \in DataBytes, n \in 0..MaxData}
\* the data of the k-th concurrent write: alternately starting with 3 and 4,
\* so that a later write differs from the one before it
WriteDataOf(k) == {DataOf(3 + (k % 2), n) : n \in 0..MaxData}

----------------------------------------------------------------------------
(* Helpers *)

Min(a, b) == IF a <= b THEN a ELSE b
Max(a, b) == IF a >= b THEN a ELSE b
SetMax(S) == CHOOSE x \in S : \A y \in S : y <= x
SetMin(S) == CHOOSE x \in S : \A y \in S : x <= y

\* vec![0u8; n]
Zeros(n) == [i \in 1..n |-> 0]
\* a caller's buffer before the call: contents the callee must not rely on
Stale(n) == [i \in 1..n |-> -1]

\* dst[local .. local + src.len()].copy_from_slice(src)
CopyInto(dst, local, src) ==
    [i \in 1..Len(dst) |->
        IF i > local /\ i <= local + Len(src) THEN src[i - local] ELSE dst[i]]

\* dst[from..].fill(0)
ZeroFrom(dst, from) ==
    [i \in 1..Len(dst) |-> IF i > from THEN 0 ELSE dst[i]]

----------------------------------------------------------------------------
(* Image over a byte slice: UnencryptedSlice / the tests' MemImage *)

\* read_at: the bytes copied to the front of a buffer of n bytes
SliceReadAt(data, offset, n) ==
    IF offset >= Len(data) THEN <<>>
    ELSE SubSeq(data, offset + 1, offset + Min(n, Len(data) - offset))

RECURSIVE ReadExactLoop(_, _, _, _)
\* Image::read_exact_at: loop over read_at; a read of 0 bytes is UnexpectedEof.
\* buf is the buffer as the loop leaves it (partly filled on failure).
ReadExactLoop(data, offset, buf, total) ==
    IF total >= Len(buf) THEN [ok |-> TRUE, buf |-> buf]
    ELSE LET got == SliceReadAt(data, offset + total, Len(buf) - total) IN
         IF Len(got) = 0 THEN [ok |-> FALSE, buf |-> buf]
         ELSE ReadExactLoop(data, offset, CopyInto(buf, total, got), total + Len(got))

ReadExactAt(data, offset, buf) == ReadExactLoop(data, offset, buf, 0)

----------------------------------------------------------------------------
(* CowImage::write_at *)

SegEnd(ov, k) == k + Len(ov[k])

\* a bound off by one: a sum one past the largest value is let through
AddOverflowsLate(offset, n) == offset + n > U64_MAX + 1

\* offset.checked_add(data.len()): TRUE when the sum does not fit
AddOverflows(offset, n) == offset + n > U64_MAX

\* a length update that forgets the comparison: *len = new_end
UpdateLenAlways(len, new_end) == new_end

\* a write that never grows the length
UpdateLenNever(len, new_end) == len

\* if new_end > *len { *len = new_end }
UpdateLen(len, new_end) == IF new_end > len THEN new_end ELSE len

RECURSIVE TakeWhileRevNear(_, _, _)
\* a take_while that also takes a segment that ends one byte before the
\* write
TakeWhileRevNear(ov, ks, write_start) ==
    IF ks = {} THEN <<>>
    ELSE LET k == SetMax(ks) IN
         IF SegEnd(ov, k) + 1 >= write_start
         THEN <<k>> \o TakeWhileRevNear(ov, ks \ {k}, write_start)
         ELSE <<>>

RECURSIVE TakeWhileRev(_, _, _)
\* .rev().take_while(|seg| seg_start + seg_data.len() >= write_start)
\* over the keys ks, highest first; stops at the first segment that fails
TakeWhileRev(ov, ks, write_start) ==
    IF ks = {} THEN <<>>
    ELSE LET k == SetMax(ks) IN
         IF SegEnd(ov, k) >= write_start
         THEN <<k>> \o TakeWhileRev(ov, ks \ {k}, write_start)
         ELSE <<>>

\* the range taken exclusive, overlay.range(..write_end): a segment that
\* starts exactly where the write ends is missed
RangeToExclusive(ov, write_end) == {k \in DOMAIN ov : k < write_end}

\* overlay.range(..=write_end)
RangeToInclusive(ov, write_end) == {k \in DOMAIN ov : k <= write_end}

KeysToRemove(ov, write_start, write_end) ==
    TakeWhileRev(ov, RangeToInclusive(ov, write_end), write_start)

\* BTreeMap::insert
MapInsert(ov, k, v) == [x \in (DOMAIN ov) \cup {k} |-> IF x = k THEN v ELSE ov[x]]
\* BTreeMap::remove for each key of ks
MapRemove(ov, ks) == [x \in (DOMAIN ov) \ ks |-> ov[x]]

\* base.read_exact_at(merged_start, &mut merged).or_else(...): a short base
\* is tolerated, the bytes beyond it stay zero
FillFromBase(b, merged_start, merged) ==
    LET first == ReadExactAt(b, merged_start, merged) IN
    IF first.ok THEN first
    ELSE IF merged_start < Len(b)
         THEN LET read_len == Min(Len(b) - merged_start, Len(merged))
                  again == ReadExactAt(b, merged_start, SubSeq(first.buf, 1, read_len))
              IN [ok |-> again.ok,
                  buf |-> again.buf \o SubSeq(first.buf, read_len + 1, Len(merged))]
         ELSE [ok |-> TRUE, buf |-> first.buf]

RECURSIVE LayerSegments(_, _, _, _, _)
\* for (seg_start, seg_data) in &to_merge { merged[local..].copy_from_slice(seg_data) }
LayerSegments(ov, keys, i, merged_start, merged) ==
    IF i > Len(keys) THEN merged
    ELSE LayerSegments(ov, keys, i + 1, merged_start,
                       CopyInto(merged, keys[i] - merged_start, ov[keys[i]]))

\* the merge with its two layering steps swapped: the collected segments
\* are copied over the new write
MergeWriteOldWins(b, ov, offset, data) ==
    LET write_start == offset
        write_end == offset + Len(data)
        keys == KeysToRemove(ov, write_start, write_end)
        keyset == {keys[i] : i \in 1..Len(keys)}
        removed == MapRemove(ov, keyset)
    IN  IF Len(keys) = 0
        THEN [ok |-> TRUE, overlay |-> MapInsert(removed, offset, data), merged |-> 0]
        ELSE LET merged_start == Min(SetMin(keyset), write_start)
                 merged_end == Max(SetMax({SegEnd(ov, k) : k \in keyset}), write_end)
                 filled == FillFromBase(b, merged_start, Zeros(merged_end - merged_start))
                 written == CopyInto(filled.buf, write_start - merged_start, data)
                 final == LayerSegments(ov, keys, 1, merged_start, written)
             IN  [ok |-> filled.ok,
                  overlay |-> IF filled.ok THEN MapInsert(removed, merged_start, final)
                              ELSE removed,
                  merged |-> Len(keys)]

\* the part of write_at that runs under the overlay write lock, after the
\* length update: collect, remove, merge, insert
MergeWrite(b, ov, offset, data) ==
    LET write_start == offset
        write_end == offset + Len(data)
        keys == KeysToRemove(ov, write_start, write_end)
        keyset == {keys[i] : i \in 1..Len(keys)}
        removed == MapRemove(ov, keyset)
    IN  IF Len(keys) = 0
        THEN [ok |-> TRUE, overlay |-> MapInsert(removed, offset, data), merged |-> 0]
        ELSE LET merged_start == Min(SetMin(keyset), write_start)
                 merged_end == Max(SetMax({SegEnd(ov, k) : k \in keyset}), write_end)
                 filled == FillFromBase(b, merged_start, Zeros(merged_end - merged_start))
                 layered == LayerSegments(ov, keys, 1, merged_start, filled.buf)
                 final == CopyInto(layered, write_start - merged_start, data)
             IN  IF filled.ok
                 THEN [ok |-> TRUE, overlay |-> MapInsert(removed, merged_start, final),
                       merged |-> Len(keys)]
                 ELSE [ok |-> FALSE, overlay |-> removed, merged |-> Len(keys)]

\* the same part of write_at over a base whose read_exact_at returns an
\* error other than UnexpectedEof: the or_else hands the error on and the ?
\* returns it, after the collected segments were removed from the map
MergeWriteBaseError(ov, offset, data) ==
    LET write_start == offset
        write_end == offset + Len(data)
        keys == KeysToRemove(ov, write_start, write_end)
        keyset == {keys[i] : i \in 1..Len(keys)}
        removed == MapRemove(ov, keyset)
    IN  IF Len(keys) = 0
        THEN [ok |-> TRUE, overlay |-> MapInsert(removed, offset, data), merged |-> 0]
        ELSE [ok |-> FALSE, overlay |-> removed, merged |-> Len(keys)]

RECURSIVE SumLens(_, _)
SumLens(ov, ks) ==
    IF ks = {} THEN 0
    ELSE LET k == SetMin(ks) IN Len(ov[k]) + SumLens(ov, ks \ {k})

\* CowImage::overlay_bytes: o.values().map(|v| v.len()).sum()
OverlayBytes(ov) == SumLens(ov, DOMAIN ov)

\* CowImage::overlay_segment_count
OverlaySegmentCount(ov) == Cardinality(DOMAIN ov)

RECURSIVE IterFrom(_, _)
\* BTreeMap::iter: the entries from the smallest key on
IterFrom(ov, ks) ==
    IF ks = {} THEN <<>>
    ELSE LET k == SetMin(ks) IN <<<<k, ov[k]>>>> \o IterFrom(ov, ks \ {k})

\* CowImage::overlay_segments: o.iter().map(|(&k, v)| (k, v.clone())).collect()
OverlaySegments(ov) == IterFrom(ov, DOMAIN ov)

----------------------------------------------------------------------------
(* CowImage::read_at *)

\* Step 1: fill from the base image, zero-fill what lies beyond it
BaseFill(b, offset, read_len) ==
    IF offset < Len(b)
    THEN LET base_avail == Min(Len(b) - offset, read_len)
             got == ReadExactAt(b, offset, Stale(base_avail))
         IN [ok |-> got.ok, buf |-> ZeroFrom(got.buf \o Stale(read_len - base_avail), base_avail)]
    ELSE [ok |-> TRUE, buf |-> Zeros(read_len)]

RECURSIVE PatchLoop(_, _, _, _, _)
\* for (&seg_start, seg_data) in overlay.range(..read_end).rev() { ... }
PatchLoop(ov, ks, buf, read_start, read_end) ==
    IF ks = {} THEN buf
    ELSE LET seg_start == SetMax(ks)
             seg_end == SegEnd(ov, seg_start)
         IN  IF seg_end <= read_start THEN buf
             ELSE LET overlap_start == Max(seg_start, read_start)
                      overlap_end == Min(seg_end, read_end)
                      buf_offset == overlap_start - read_start
                      seg_offset == overlap_start - seg_start
                      copy_len == overlap_end - overlap_start
                  IN  PatchLoop(ov, ks \ {seg_start},
                                CopyInto(buf, buf_offset,
                                         SubSeq(ov[seg_start], seg_offset + 1, seg_offset + copy_len)),
                                read_start, read_end)

\* overlay.range(..read_end)
RangeTo(ov, read_end) == {k \in DOMAIN ov : k < read_end}

\* read_at once the logical length llen has been read: llen and ov are
\* taken under two different locks, so they are separate arguments
CowReadAt(b, ov, llen, offset, buflen) ==
    IF buflen = 0 \/ offset >= llen
    THEN [ok |-> TRUE, n |-> 0, bytes |-> <<>>]
    ELSE LET read_len == Min(buflen, llen - offset)
             filled == BaseFill(b, offset, read_len)
         IN  IF ~filled.ok THEN [ok |-> FALSE, n |-> 0, bytes |-> <<>>]
             ELSE [ok |-> TRUE, n |-> read_len,
                   bytes |-> PatchLoop(ov, RangeTo(ov, offset + read_len), filled.buf,
                                       offset, offset + read_len)]

----------------------------------------------------------------------------
(* The reference image: writes layered onto the base in order *)

Layer(image, offset, data) ==
    [i \in 1..Max(Len(image), offset + Len(data)) |->
        IF i > offset /\ i <= offset + Len(data) THEN data[i - offset]
        ELSE IF i <= Len(image) THEN image[i] ELSE 0]

\* what a read of the reference image returns
Expected(image, offset, buflen) ==
    IF offset >= Len(image) THEN <<>>
    ELSE SubSeq(image, offset + 1, Min(Len(image), offset + buflen))

----------------------------------------------------------------------------
(* File::read_at / PfsFileImage::read_at: pfs_read_at *)

\* block sizes: powers of two, as open_inner requires
BlockSizes == {1, 2, 4}

\* the image under the Pfs: the byte at offset p is p itself, so that a
\* byte read tells where it was read from
ImageOf(n) == [i \in 1..n |-> i - 1]

RECURSIVE BlockMaps(_)
\* all block maps of length n over the blocks 0..MaxBlocks - 1
BlockMaps(n) ==
    IF n = 0 THEN {<<>>}
    ELSE {Append(m, b) : m \in BlockMaps(n - 1), b \in 0..(MaxBlocks - 1)}

NoFileRead == [op |-> "none", offset |-> 0, buflen |-> 0, ok |-> TRUE, n |-> 0,
               bytes |-> <<>>, reads |-> <<>>]
NoPfs == [image |-> <<>>, block_size |-> 1, size |-> 0, block_map |-> <<>>]

FileIdle == pfs = NoPfs /\ fread = NoFileRead

\* phys_offset with the offset inside the block left out
PhysOffsetBlockStart(block_num, block_size, offset_in_block) == block_num * block_size

\* let phys_offset = (block_num as u64) * block_size + offset_in_block
PhysOffset(block_num, block_size, offset_in_block) ==
    block_num * block_size + offset_in_block

RECURSIVE PfsReadLoop(_, _, _, _, _)
\* the loop of pfs_read_at. buf is the caller's buffer, copied the bytes
\* filled so far, pos the file offset reached, reads the positional reads
\* issued on the image so far, each as <<file offset, image offset, length>>
PfsReadLoop(p, buf, copied, pos, reads) ==
    LET block_size == p.block_size
        block_index == pos \div block_size
        offset_in_block == pos % block_size
    IN  IF block_index >= Len(p.block_map)
        THEN [ok |-> FALSE, n |-> 0, bytes |-> <<>>, reads |-> reads]
        ELSE LET block_num == p.block_map[block_index + 1]
                 block_end == (block_index + 1) * block_size
                 remaining_in_block == Min(block_end, p.size) - pos
                 to_read == Min(remaining_in_block, Len(buf) - copied)
                 phys_offset == PhysOffset(block_num, block_size, offset_in_block)
                 got == ReadExactAt(p.image, phys_offset, Stale(to_read))
                 buf2 == CopyInto(buf, copied, got.buf)
                 reads2 == Append(reads, <<pos, phys_offset, to_read>>)
             IN  IF ~got.ok
                 THEN [ok |-> FALSE, n |-> 0, bytes |-> <<>>, reads |-> reads2]
                 ELSE IF copied + to_read = Len(buf) \/ pos + to_read >= p.size
                 THEN [ok |-> TRUE, n |-> copied + to_read,
                       bytes |-> SubSeq(buf2, 1, copied + to_read), reads |-> reads2]
                 ELSE PfsReadLoop(p, buf2, copied + to_read, pos + to_read, reads2)

\* pfs_read_at(pfs, inode, offset, buf)
PfsReadAt(p, offset, buflen) ==
    IF buflen = 0 \/ offset >= p.size
    THEN [ok |-> TRUE, n |-> 0, bytes |-> <<>>, reads |-> <<>>]
    ELSE PfsReadLoop(p, Stale(buflen), 0, offset, <<>>)

\* a Pfs over an image of whole blocks, with one file: any size, any block
\* map (also one too short for the size, or naming a block past the image)
FileInit ==
    /\ \E bs \in BlockSizes, nblocks \in {MaxBlocks - 1, MaxBlocks}, len \in 0..MaxMapLen :
         \E map \in BlockMaps(len), size \in 0..(MaxMapLen * bs + 1) :
            pfs = [image |-> ImageOf(nblocks * bs), block_size |-> bs, size |-> size,
                   block_map |-> map]
    /\ fread = NoFileRead

\* File::read_at(offset, buf)
FileReadAt(offset, buflen) ==
    /\ LET r == PfsReadAt(pfs, offset, buflen) IN
       fread' = [op |-> "read", offset |-> offset, buflen |-> buflen, ok |-> r.ok,
                 n |-> r.n, bytes |-> r.bytes, reads |-> r.reads]
    /\ UNCHANGED pfs

----------------------------------------------------------------------------
(* PFSC: the stream layout, PfscImage::open, decompress_block, read_at *)

\* size_of::<PfscHeader>()
PfscHeaderSize == 48
\* b"PFSC"
PFSC_MAGIC == <<80, 70, 83, 67>>

RECURSIVE ToLE(_, _)
\* the n little-endian bytes of v
ToLE(v, n) == IF n = 0 THEN <<>> ELSE <<v % 256>> \o ToLE(v \div 256, n - 1)

RECURSIVE FromLE(_)
\* little_endian::U32 / U64 ::get
FromLE(bytes) == IF bytes = <<>> THEN 0 ELSE bytes[1] + 256 * FromLE(Tail(bytes))

\* bytes[at .. at + n]
Field(bytes, at, n) == SubSeq(bytes, at + 1, at + n)

\* the 48 bytes of a PfscHeader
HeaderBytes(block_size, block_size2, block_offsets, data_length) ==
    PFSC_MAGIC \o ToLE(0, 4) \o ToLE(0, 4) \o ToLE(block_size, 4)
    \o ToLE(block_size2, 8) \o ToLE(block_offsets, 8) \o ToLE(0, 8)
    \o ToLE(data_length, 8)

RECURSIVE RunLength(_)
\* the compressor: a stream of <<count, byte>> pairs, one pair per run
RunLength(block) ==
    IF block = <<>> THEN <<>>
    ELSE LET same == {k \in 1..Len(block) : \A j \in 1..k : block[j] = block[1]}
             run == SetMax(same)
         IN  <<run, block[1]>> \o RunLength(SubSeq(block, run + 1, Len(block)))

RECURSIVE InflateLoop(_, _, _)
\* flate2::Decompress::decompress(input, out, Finish) on that stream: out is
\* the output written so far, cap is out.len()
InflateLoop(input, out, cap) ==
    IF input = <<>> THEN [ok |-> TRUE, status |-> "StreamEnd", out |-> out]
    ELSE IF Len(input) = 1 \/ input[1] = 0
    THEN [ok |-> FALSE, status |-> "DataError", out |-> out]
    ELSE IF Len(out) + input[1] > cap
    THEN [ok |-> TRUE, status |-> "BufError",
          out |-> out \o [i \in 1..(cap - Len(out)) |-> input[2]]]
    ELSE InflateLoop(SubSeq(input, 3, Len(input)),
                     out \o [i \in 1..input[1] |-> input[2]], cap)

Inflate(input, cap) == InflateLoop(input, <<>>, cap)

\* block i (from 0) of the data, the last one padded with zeros to a whole block
PaddedBlock(data, bs, i) ==
    [j \in 1..bs |-> IF i * bs + j <= Len(data) THEN data[i * bs + j] ELSE 0]

\* the number of blocks that hold data of length n
BlockCount(n, bs) == (n + bs - 1) \div bs

\* how a block is stored: "raw" as it is, "deflate" compressed when that is
\* shorter than a block, "sparse" as a range longer than a block when the
\* block is all zeros
StoredBlock(block, policy) ==
    IF policy = "sparse" /\ block = Zeros(Len(block)) THEN Zeros(Len(block) + 1)
    ELSE IF policy # "raw" /\ Len(RunLength(block)) < Len(block) THEN RunLength(block)
    ELSE block

RECURSIVE Payload(_, _, _, _)
\* the stored blocks i, i + 1, ... one after the other
Payload(data, bs, policy, i) ==
    IF i >= BlockCount(Len(data), bs) THEN <<>>
    ELSE StoredBlock(PaddedBlock(data, bs, i), policy) \o Payload(data, bs, policy, i + 1)

RECURSIVE OffsetTable(_, _, _, _, _)
\* the offset table: where each block starts, and where the last one ends
OffsetTable(data, bs, policy, i, at) ==
    IF i >= BlockCount(Len(data), bs) THEN ToLE(at, 8)
    ELSE ToLE(at, 8) \o OffsetTable(data, bs, policy, i + 1,
                          at + Len(StoredBlock(PaddedBlock(data, bs, i), policy)))

\* a PFSC stream of the data: header, then the offset table and the stored
\* blocks in either order
PfscStream(data, bs, policy, tableFirst) ==
    LET tableLen == 8 * (BlockCount(Len(data), bs) + 1)
        payloadLen == Len(Payload(data, bs, policy, 0))
        tableAt == IF tableFirst THEN PfscHeaderSize ELSE PfscHeaderSize + payloadLen
        payloadAt == IF tableFirst THEN PfscHeaderSize + tableLen ELSE PfscHeaderSize
        table == OffsetTable(data, bs, policy, 0, payloadAt)
    IN  HeaderBytes(bs, bs, tableAt, Len(data))
        \o (IF tableFirst THEN table \o Payload(data, bs, policy, 0)
            ELSE Payload(data, bs, policy, 0) \o table)

\* original data: zeros, one byte repeated, all bytes different, a run then zeros
OrigData(kind, n) ==
    [i \in 1..n |-> CASE kind = 1 -> 0
                      [] kind = 2 -> 7
                      [] kind = 3 -> i
                      [] OTHER -> IF i <= 4 THEN 7 ELSE 0]

PfscBlockSizes == {2, 4}
Policies == {"raw", "deflate", "sparse"}

\* the u64 entries of the table
TableEntries(bytes, count) == [i \in 1..count |-> FromLE(Field(bytes, 8 * (i - 1), 8))]

\* let original_block_count = original_size / original_block_size + 1
OriginalBlockCount(original_size, original_block_size) ==
    original_size \div original_block_size + 1

\* PfscImage::open(source)
PfscOpenOf(src) ==
    LET header == ReadExactAt(src, 0, Stale(PfscHeaderSize)) IN
    IF ~header.ok THEN [state |-> "TooSmall"]
    ELSE IF Field(header.buf, 0, 4) # PFSC_MAGIC THEN [state |-> "InvalidMagic"]
    ELSE LET block_size == FromLE(Field(header.buf, 12, 4))
             original_block_size == FromLE(Field(header.buf, 16, 8))
             block_offsets_offset == FromLE(Field(header.buf, 24, 8))
             original_size == FromLE(Field(header.buf, 40, 8))
         IN  IF original_block_size = 0 THEN [state |-> "panic"]
             ELSE LET original_block_count ==
                          OriginalBlockCount(original_size, original_block_size)
                      table == ReadExactAt(src, block_offsets_offset,
                                           Stale(8 * original_block_count))
                  IN  IF ~table.ok THEN [state |-> "ReadBlockMappingFailed"]
                      ELSE [state |-> "open",
                            block_size |-> block_size,
                            original_block_size |-> original_block_size,
                            compressed_blocks |-> TableEntries(table.buf, original_block_count),
                            original_size |-> original_size]

\* PfscImage::decompress_block(num, out): out as the call leaves it
DecompressBlock(img, src, num, out) ==
    IF num + 1 >= Len(img.compressed_blocks)
    THEN [ok |-> FALSE, err |-> "InvalidInput", out |-> out]
    ELSE LET end == img.compressed_blocks[num + 2]
             offset == img.compressed_blocks[num + 1]
             size == end - offset
         IN  IF size < img.original_block_size
             THEN LET compressed == ReadExactAt(src, offset, Zeros(size)) IN
                  IF ~compressed.ok THEN [ok |-> FALSE, err |-> "UnexpectedEof", out |-> out]
                  ELSE LET deflate == Inflate(compressed.buf, Len(out))
                           written == CopyInto(out, 0, deflate.out)
                       IN  IF ~deflate.ok
                           THEN [ok |-> FALSE, err |-> "Other", out |-> written]
                           ELSE IF deflate.status # "StreamEnd"
                                   \/ Len(deflate.out) # Len(out)
                           THEN [ok |-> FALSE, err |-> "Other", out |-> written]
                           ELSE [ok |-> TRUE, err |-> "", out |-> written]
             ELSE IF size = img.original_block_size
             THEN LET raw == ReadExactAt(src, offset, out) IN
                  IF ~raw.ok THEN [ok |-> FALSE, err |-> "UnexpectedEof", out |-> raw.buf]
                  ELSE [ok |-> TRUE, err |-> "", out |-> raw.buf]
             ELSE [ok |-> TRUE, err |-> "", out |-> Zeros(Len(out))]

RECURSIVE PfscReadLoop(_, _, _, _, _, _)
\* the loop of PfscImage::read_at
PfscReadLoop(img, src, buf, copied, pos, block_buf) ==
    IF ~(copied < Len(buf) /\ pos < img.original_size)
    THEN [ok |-> TRUE, err |-> "", n |-> copied, bytes |-> SubSeq(buf, 1, copied)]
    ELSE LET block_size == img.block_size
             block_index == pos \div block_size
             offset_in_block == pos % block_size
             block == DecompressBlock(img, src, block_index, block_buf)
         IN  IF ~block.ok THEN [ok |-> FALSE, err |-> block.err, n |-> 0, bytes |-> <<>>]
             ELSE LET block_end == (block_index + 1) * block_size
                      valid_in_block == IF block_end > img.original_size
                                        THEN img.original_size - block_index * block_size
                                        ELSE block_size
                      available == valid_in_block - offset_in_block
                      n == Min(available, Len(buf) - copied)
                      piece == SubSeq(block.out, offset_in_block + 1, offset_in_block + n)
                  IN  PfscReadLoop(img, src, CopyInto(buf, copied, piece), copied + n,
                                   pos + n, block.out)

\* PfscImage::read_at(offset, buf)
PfscReadAtOf(img, src, offset, buflen) ==
    IF buflen = 0 \/ offset >= img.original_size
    THEN [ok |-> TRUE, err |-> "", n |-> 0, bytes |-> <<>>]
    ELSE PfscReadLoop(img, src, Stale(buflen), 0, offset, Zeros(img.block_size))

\* a length that counts every block whole
PfscLenWholeBlocks(img) ==
    ((img.original_size + img.block_size - 1) \div img.block_size) * img.block_size

\* PfscImage::len
PfscLen(img) == img.original_size

NoPfsc == [state |-> "closed"]
NoPfscRead == [op |-> "none", offset |-> 0, buflen |-> 0, ok |-> TRUE, err |-> "",
               n |-> 0, bytes |-> <<>>]

PfscIdle == source = <<>> /\ orig = <<>> /\ pfsc = NoPfsc /\ pread = NoPfscRead

\* a PFSC stream built from some original data, not opened yet
PfscInit ==
    /\ \E n \in 0..MaxOrig, kind \in 1..4, bs \in PfscBlockSizes, policy \in Policies,
          tableFirst \in BOOLEAN :
          /\ orig = OrigData(kind, n)
          /\ source = PfscStream(orig, bs, policy, tableFirst)
    /\ pfsc = NoPfsc
    /\ pread = NoPfscRead

\* PfscImage::open(source)
PfscOpen ==
    /\ pfsc = NoPfsc
    /\ pfsc' = PfscOpenOf(source)
    /\ UNCHANGED <<source, orig, pread>>

\* PfscImage::read_at(offset, buf) on the opened image
PfscReadAt(offset, buflen) ==
    /\ pfsc.state = "open"
    /\ LET r == PfscReadAtOf(pfsc, source, offset, buflen) IN
       pread' = [op |-> "read", offset |-> offset, buflen |-> buflen, ok |-> r.ok,
                 err |-> r.err, n |-> r.n, bytes |-> r.bytes]
    /\ UNCHANGED <<source, orig, pfsc>>

----------------------------------------------------------------------------
(* Inode::load_block_map and Inode::read_indirect *)

\* direct_blocks: [u32; 12]
DirectCount == 12
\* indirect_blocks: [u32; 5]
IndirectCount == 5
\* the direct_blocks[1] value that marks contiguous blocks (0xffffffff)
ContiguousMark == U32_MAX

\* entry_size of a signed entry: the 32-byte signature, then the pointer
SignedEntrySize == 36
SignedValueOffset == 32
\* entry_size of an unsigned entry: the pointer alone
PlainEntrySize == 4

\* read_indirect that takes every entry for an unsigned one
ReadIndirectPlain(signed, raw) ==
    IF Len(raw) < PlainEntrySize THEN [some |-> FALSE, value |-> 0, rest |-> raw]
    ELSE [some |-> TRUE, value |-> FromLE(SubSeq(raw, 1, 4)),
          rest |-> SubSeq(raw, PlainEntrySize + 1, Len(raw))]

\* Inode::read_indirect(raw): the pointer of the first entry and the rest
ReadIndirect(signed, raw) ==
    LET entry_size == IF signed THEN SignedEntrySize ELSE PlainEntrySize
        value_offset == IF signed THEN SignedValueOffset ELSE 0
    IN  IF Len(raw) < entry_size THEN [some |-> FALSE, value |-> 0, rest |-> raw]
        ELSE [some |-> TRUE,
              value |-> FromLE(SubSeq(raw, value_offset + 1, value_offset + 4)),
              rest |-> SubSeq(raw, entry_size + 1, Len(raw))]

\* start..end of u32: empty when end <= start
Range(start, end) == [i \in 1..(IF end > start THEN end - start ELSE 0) |-> start + i - 1]

RECURSIVE PushIndirect(_, _, _, _)
\* while let Some(i) = self.read_indirect(&mut data) { blocks.push(i); ... }
PushIndirect(signed, data, blocks, block_count) ==
    LET e == ReadIndirect(signed, data) IN
    IF ~e.some THEN [done |-> FALSE, blocks |-> blocks]
    ELSE IF Len(blocks) + 1 = block_count
    THEN [done |-> TRUE, blocks |-> Append(blocks, e.value)]
    ELSE PushIndirect(signed, e.rest, Append(blocks, e.value), block_count)

RECURSIVE DoubleIndirectTruncating(_, _, _, _, _, _, _, _)
\* the double indirect loop that returns what it has when the entries run out
DoubleIndirectTruncating(signed, image, bs, data0, block1, blocks, block_count, reads) ==
    LET e == ReadIndirect(signed, data0) IN
    IF ~e.some
    THEN [state |-> "ok", blocks |-> blocks, reads |-> reads]
    ELSE LET offset == e.value * bs
             got == ReadExactAt(image, offset, block1)
             inner == PushIndirect(signed, got.buf, blocks, block_count)
         IN  IF ~got.ok
             THEN [state |-> "Read", blocks |-> <<>>, reads |-> Append(reads, offset)]
             ELSE IF inner.done
             THEN [state |-> "ok", blocks |-> inner.blocks, reads |-> Append(reads, offset)]
             ELSE DoubleIndirectTruncating(signed, image, bs, e.rest, got.buf, inner.blocks,
                                           block_count, Append(reads, offset))

RECURSIVE DoubleIndirect(_, _, _, _, _, _, _, _)
\* the loop over the entries of the block numbered indirect_blocks[1]
DoubleIndirect(signed, image, bs, data0, block1, blocks, block_count, reads) ==
    LET e == ReadIndirect(signed, data0) IN
    IF ~e.some
    THEN [state |-> "DoubleIndirectBlockNotSupported", blocks |-> <<>>, reads |-> reads]
    ELSE LET offset == e.value * bs
             got == ReadExactAt(image, offset, block1)
             inner == PushIndirect(signed, got.buf, blocks, block_count)
         IN  IF ~got.ok
             THEN [state |-> "Read", blocks |-> <<>>, reads |-> Append(reads, offset)]
             ELSE IF inner.done
             THEN [state |-> "ok", blocks |-> inner.blocks, reads |-> Append(reads, offset)]
             ELSE DoubleIndirect(signed, image, bs, e.rest, got.buf, inner.blocks,
                                 block_count, Append(reads, offset))

\* Inode::load_block_map(image, block_size). overflow_checks tells whether
\* the build panics on integer overflow (debug) or wraps (release). reads
\* are the image offsets read.
LoadBlockMap(ino, image, block_size, overflow_checks) ==
    LET block_count == ino.blocks IN
    IF block_count = 0 THEN [state |-> "ok", blocks |-> <<>>, reads |-> <<>>]
    ELSE IF ino.direct_blocks[2] = ContiguousMark
    THEN LET start == ino.direct_blocks[1]
             sum == start + ino.blocks
         IN  IF sum > U32_MAX /\ overflow_checks
             THEN [state |-> "panic", blocks |-> <<>>, reads |-> <<>>]
             ELSE [state |-> "ok", blocks |-> Range(start, sum % (U32_MAX + 1)),
                   reads |-> <<>>]
    ELSE IF block_count <= DirectCount
    THEN [state |-> "ok", blocks |-> SubSeq(ino.direct_blocks, 1, block_count),
          reads |-> <<>>]
    ELSE LET bs == block_size
             offset0 == ino.indirect_blocks[1] * bs
             block0 == ReadExactAt(image, offset0, Zeros(block_size))
             single == PushIndirect(ino.signed, block0.buf, ino.direct_blocks, block_count)
             offset1 == ino.indirect_blocks[2] * bs
             block0b == ReadExactAt(image, offset1, block0.buf)
         IN  IF ~block0.ok
             THEN [state |-> "Read", blocks |-> <<>>, reads |-> <<offset0>>]
             ELSE IF single.done
             THEN [state |-> "ok", blocks |-> single.blocks, reads |-> <<offset0>>]
             ELSE IF ~block0b.ok
             THEN [state |-> "Read", blocks |-> <<>>, reads |-> <<offset0, offset1>>]
             ELSE DoubleIndirect(ino.signed, image, bs, block0b.buf, Zeros(block_size),
                                 single.blocks, block_count, <<offset0, offset1>>)

\* an image whose every 4-byte word holds its own index plus one
WordImage(n) == [i \in 1..n |-> IF (i - 1) % 4 = 0 THEN 1 + ((i - 1) \div 4) ELSE 0]

\* an image whose every 4-byte word holds the number of a block inside an
\* image of MaxImageBlocks blocks, changing from word to word
LinkImage(n) ==
    [i \in 1..n |-> IF (i - 1) % 4 = 0 THEN (((i - 1) \div 4) \div 3) % MaxImageBlocks ELSE 0]

InodeBlockSizes == {8, 128}

\* direct pointers: the first two as given, the others all different
DirectBlocks(d0, d1) ==
    [i \in 1..DirectCount |-> IF i = 1 THEN d0 ELSE IF i = 2 THEN d1 ELSE 40 + i]

IndirectBlocks(i0, i1) ==
    [i \in 1..IndirectCount |-> IF i = 1 THEN i0 ELSE IF i = 2 THEN i1 ELSE 0]

NoFs == [image |-> <<>>, block_size |-> 8, overflow_checks |-> TRUE]
NoInode == [blocks |-> 0, direct_blocks |-> DirectBlocks(0, 0),
            indirect_blocks |-> IndirectBlocks(0, 0), signed |-> FALSE]
NoMap == [state |-> "none", blocks |-> <<>>, reads |-> <<>>]

InodeIdle == fs = NoFs /\ inode = NoInode /\ bmap = NoMap

\* an inode as parsed from the inode table, and the image it will be
\* resolved against; the block map is not computed yet
InodeInit ==
    /\ \E bs \in InodeBlockSizes, nblocks \in {0, MaxImageBlocks}, checks \in BOOLEAN,
          linked \in BOOLEAN :
          fs = [image |-> IF linked THEN LinkImage(nblocks * bs)
                          ELSE WordImage(nblocks * bs),
                block_size |-> bs, overflow_checks |-> checks]
    /\ \E n \in 0..MaxBlockCount, d0 \in {0, 5, U32_MAX - 2, U32_MAX - 1, U32_MAX},
          d1 \in {7, ContiguousMark}, i0 \in {0, 1, 3, 9}, i1 \in {0, 2}, sg \in BOOLEAN :
          inode = [blocks |-> n, direct_blocks |-> DirectBlocks(d0, d1),
                   indirect_blocks |-> IndirectBlocks(i0, i1), signed |-> sg]
    /\ bmap = NoMap

\* precompute_block_maps: load_block_map for the inode
PrecomputeBlockMap ==
    /\ bmap = NoMap
    /\ bmap' = LoadBlockMap(inode, fs.image, fs.block_size, fs.overflow_checks)
    /\ UNCHANGED <<fs, inode>>

----------------------------------------------------------------------------
(* Dirent::read and Directory::open *)

\* size_of::<DirentRaw>()
DirentHeaderSize == 16
\* Dirent::FILE, DIRECTORY, SELF, PARENT
DirentFile == 2
DirentDirectory == 3
DirentSelf == 4
DirentParent == 5

\* a < b for byte strings: the order of BTreeMap<Vec<u8>, _> keys
LexLess(a, b) ==
    \E k \in 0..Min(Len(a), Len(b)) :
        /\ \A i \in 1..k : a[i] = b[i]
        /\ \/ k = Len(a) /\ k < Len(b)
           \/ k < Len(a) /\ k < Len(b) /\ a[k + 1] < b[k + 1]

\* an insert that keeps the entry already stored under the name
BTreeInsertKeepFirst(items, name, entry) ==
    IF \E i \in 1..Len(items) : items[i].name = name THEN items
    ELSE LET before == SelectSeq(items, LAMBDA it : LexLess(it.name, name))
             after == SelectSeq(items, LAMBDA it : LexLess(name, it.name))
         IN  before \o <<[name |-> name, entry |-> entry]>> \o after

\* BTreeMap::insert: items in key order, the entry of an equal key replaced
BTreeInsert(items, name, entry) ==
    LET before == SelectSeq(items, LAMBDA it : LexLess(it.name, name))
        after == SelectSeq(items, LAMBDA it : LexLess(name, it.name))
    IN  before \o <<[name |-> name, entry |-> entry]>> \o after

\* Dirent::read(from): the dirent and what is left of the block
DirentRead(from) ==
    IF Len(from) < DirentHeaderSize THEN [state |-> "TooSmall"]
    ELSE LET ino == FromLE(Field(from, 0, 4))
             ty == FromLE(Field(from, 4, 4))
             namelen == FromLE(Field(from, 8, 4))
             entsize == FromLE(Field(from, 12, 4))
         IN  IF entsize = 0 THEN [state |-> "EndOfEntry"]
             ELSE IF Len(from) - DirentHeaderSize < namelen THEN [state |-> "TooSmall"]
             ELSE [state |-> "ok", ino |-> ino, ty |-> ty, entsize |-> entsize,
                   name |-> Field(from, DirentHeaderSize, namelen),
                   rest |-> SubSeq(from, DirentHeaderSize + namelen + 1, Len(from))]

\* an inode check that lets the inode count itself through
InodeInRangeInclusive(ino, inode_count) == ino <= inode_count

\* inode < self.pfs.inode_count()
InodeInRange(ino, inode_count) == ino < inode_count

\* the match on dirent.ty() with unknown types skipped like self and parent
EntryKindLenient(ty) ==
    IF ty = DirentFile THEN "File"
    ELSE IF ty = DirentDirectory THEN "Directory"
    ELSE "skip"

\* the match on dirent.ty()
EntryKind(ty) ==
    IF ty = DirentFile THEN "File"
    ELSE IF ty = DirentDirectory THEN "Directory"
    ELSE IF ty = DirentSelf \/ ty = DirentParent THEN "skip"
    ELSE "unknown"

RECURSIVE DirentLoop(_, _, _, _)
\* the loop over the dirents of one block: for num in 0_usize..
DirentLoop(p, next, items, num) ==
    LET d == DirentRead(next) IN
    IF d.state # "ok" THEN [state |-> "ok", items |-> items]
    ELSE IF d.entsize < DirentHeaderSize + Len(d.name)
    THEN \* padding_size subtracts below zero: the build with overflow checks
         \* panics, the build without wraps to a length no block has
         IF p.overflow_checks THEN [state |-> "panic", items |-> <<>>]
         ELSE [state |-> "DirentInvalidSize", items |-> <<>>]
    ELSE LET padding == d.entsize - DirentHeaderSize - Len(d.name) IN
         IF padding > Len(d.rest) THEN [state |-> "DirentInvalidSize", items |-> <<>>]
         ELSE IF ~InodeInRange(d.ino, p.inode_count)
         THEN [state |-> "InvalidInode", items |-> <<>>]
         ELSE IF EntryKind(d.ty) = "unknown"
         THEN [state |-> "DirentUnknownType", items |-> <<>>]
         ELSE DirentLoop(p, SubSeq(d.rest, padding + 1, Len(d.rest)),
                         IF EntryKind(d.ty) = "skip" THEN items
                         ELSE BTreeInsert(items, d.name,
                                          [kind |-> EntryKind(d.ty), inode |-> d.ino]),
                         num + 1)

RECURSIVE BlockLoop(_, _, _, _)
\* the loop over the blocks of the directory: for &block_num in blocks
BlockLoop(p, blocks, block_data, items) ==
    IF blocks = <<>> THEN [state |-> "ok", items |-> items]
    ELSE LET offset == Head(blocks) * p.block_size
             got == ReadExactAt(p.image, offset, block_data)
             inner == DirentLoop(p, got.buf, items, 0)
         IN  IF ~got.ok THEN [state |-> "ReadBlock", items |-> <<>>]
             ELSE IF inner.state # "ok" THEN inner
             ELSE BlockLoop(p, Tail(blocks), got.buf, inner.items)

\* Directory::open
DirectoryOpen(p) == BlockLoop(p, p.block_map, Zeros(p.block_size), <<>>)

\* DirEntries::names
Names(items) == [i \in 1..Len(items) |-> items[i].name]

\* the bytes of a dirent: header, name, padding up to entsize
DirentBytes(d) ==
    ToLE(d.ino, 4) \o ToLE(d.ty, 4) \o ToLE(Len(d.name), 4) \o ToLE(d.entsize, 4)
    \o d.name
    \o Zeros(IF d.entsize > DirentHeaderSize + Len(d.name)
             THEN d.entsize - DirentHeaderSize - Len(d.name) ELSE 0)

RECURSIVE Concat(_)
Concat(seqs) == IF seqs = <<>> THEN <<>> ELSE Head(seqs) \o Concat(Tail(seqs))

\* a block of block_size bytes that starts with the dirents, cut or
\* zero-filled to the block size
DirBlock(ds, block_size) ==
    LET bytes == Concat([i \in 1..Len(ds) |-> DirentBytes(ds[i])]) IN
    [i \in 1..block_size |-> IF i <= Len(bytes) THEN bytes[i] ELSE 0]

\* names: "a", "ab", "b", "."
NameA == <<97>>
NameAB == <<97, 98>>
NameB == <<98>>
NameDot == <<46>>

Dirent(ino, ty, name, entsize) == [ino |-> ino, ty |-> ty, name |-> name, entsize |-> entsize]

\* the dirents a directory is written from: files and directories (two
\* under one name), self and parent, an unknown type, inode indexes out of
\* range, a record size below the header and name, one past the block
DirentChoices ==
    { Dirent(0, DirentFile, NameA, DirentSize), Dirent(1, DirentDirectory, NameA, DirentSize),
      Dirent(1, DirentFile, NameB, DirentSize), Dirent(0, DirentDirectory, NameAB, DirentSize),
      Dirent(0, DirentSelf, NameDot, DirentSize), Dirent(1, DirentParent, NameDot, DirentSize),
      Dirent(0, 6, NameB, DirentSize), Dirent(DirInodeCount, DirentFile, NameB, DirentSize),
      Dirent(DirInodeCount + 1, DirentSelf, NameDot, DirentSize),
      Dirent(DirInodeCount, 7, NameAB, DirentSize),
      Dirent(1, DirentFile, NameAB, 17), Dirent(0, DirentFile, NameA, 200) }

RECURSIVE DirentLists(_)
DirentLists(n) ==
    IF n = 0 THEN {<<>>}
    ELSE {<<>>} \cup {<<d>> \o l : d \in DirentChoices, l \in DirentLists(n - 1)}

NoDpfs == [image |-> <<>>, block_size |-> DirBlockSize, inode_count |-> 0,
           block_map |-> <<>>, overflow_checks |-> TRUE]
NoListing == [state |-> "none", items |-> <<>>]

DirIdle == dpfs = NoDpfs /\ dirents = <<>> /\ listing = NoListing

\* a directory of one or two blocks, each with no more dirents than fit in
\* it, the second block before the first in the image; the image holds three blocks, or only two and then lacks the
\* directory's first block
DirInit ==
    /\ \E l \in DirentLists(MaxDirents), k \in 0..MaxDirents, two \in BOOLEAN,
          nblocks \in {2, 3}, checks \in BOOLEAN :
          /\ k <= Len(l)
          /\ two \/ k = Len(l)
          /\ k <= DirBlockSize \div DirentSize
          /\ Len(l) - k <= DirBlockSize \div DirentSize
          /\ dirents = IF two THEN <<SubSeq(l, 1, k), SubSeq(l, k + 1, Len(l))>>
                       ELSE <<l>>
          /\ dpfs = [image |-> SubSeq(Zeros(DirBlockSize)
                                      \o (IF two THEN DirBlock(dirents[2], DirBlockSize)
                                          ELSE Zeros(DirBlockSize))
                                      \o DirBlock(dirents[1], DirBlockSize),
                                      1, nblocks * DirBlockSize),
                     block_size |-> DirBlockSize, inode_count |-> DirInodeCount,
                     block_map |-> IF two THEN <<2, 1>> ELSE <<2>>,
                     overflow_checks |-> checks]
    /\ listing = NoListing

\* Directory::open on the directory
DirOpen ==
    /\ listing = NoListing
    /\ listing' = DirectoryOpen(dpfs)
    /\ UNCHANGED <<dpfs, dirents>>

----------------------------------------------------------------------------
(* PfsHeader::from_bytes *)

VERSION == 1
FORMAT == 20130315
\* HEADER_SIZE = 0x380
HEADER_SIZE == 896
\* size_of::<PfsHeaderRaw>() = 0x50
PfsHeaderRawSize == 80
\* the key seed is at 0x370 of the header
KeySeedOffset == 880
KeySeedSize == 16

\* a key seed taken at the offset counted from the start of the buffer
\* instead of from the end of the raw header
KeySeedAtRestOffset(data) ==
    Field(data, KeySeedOffset - PfsHeaderRawSize, KeySeedSize)

\* rest.get(key_seed_offset..key_seed_offset + 16), rest being the buffer
\* after the raw header
KeySeedOf(data) ==
    LET rest == SubSeq(data, PfsHeaderRawSize + 1, Len(data))
        key_seed_offset == KeySeedOffset - PfsHeaderRawSize
    IN  Field(rest, key_seed_offset, KeySeedSize)

\* PfsHeader::from_bytes; the 64-bit fields are compared as bytes
PfsHeaderFromBytes(data) ==
    IF Len(data) < PfsHeaderRawSize THEN [state |-> "ReadHeaderFailed"]
    ELSE IF Field(data, 0, 8) # ToLE(VERSION, 8) THEN [state |-> "InvalidVersion"]
    ELSE IF Field(data, 8, 8) # ToLE(FORMAT, 8) THEN [state |-> "InvalidFormat"]
    ELSE IF Field(data, 68, 4) # Zeros(4) THEN [state |-> "TooManyInodeBlocks"]
    ELSE IF Len(data) - PfsHeaderRawSize < KeySeedOffset - PfsHeaderRawSize + KeySeedSize
    THEN [state |-> "ReadKeySeedFailed"]
    ELSE [state |-> "ok",
          mode |-> FromLE(Field(data, 28, 2)),
          block_size |-> FromLE(Field(data, 32, 4)),
          inode_count |-> FromLE(Field(data, 48, 8)),
          inode_block_count |-> Field(data, 64, 4),
          super_root_inode |-> FromLE(Field(data, 72, 8)),
          key_seed |-> KeySeedOf(data)]

\* Mode::is_signed
IsSigned(mode) == mode % 2 = 1

\* a test of the 64-bit flag (0x2) in place of the encrypted flag
IsEncryptedBit2(mode) == (mode \div 2) % 2 = 1

\* Mode::is_encrypted
IsEncrypted(mode) == (mode \div 4) % 2 = 1

\* the bytes of a superblock: PfsHeaderRaw, zeros, the key seed
PfsHeaderBytes(h) ==
    h.version \o h.format \o Zeros(8) \o Zeros(4) \o ToLE(h.mode, 2) \o Zeros(2)
    \o ToLE(h.block_size, 4) \o Zeros(4) \o Zeros(8) \o ToLE(h.ndinode, 8) \o Zeros(8)
    \o h.ndinodeblock \o ToLE(h.superroot_ino, 8)
    \o Zeros(KeySeedOffset - PfsHeaderRawSize) \o h.key_seed

\* a 64-bit field with one bit set above the low 32 bits
Above32(low) == ToLE(low, 4) \o <<1, 0, 0, 0>>
\* u32::MAX as a 64-bit field
U32MaxField == <<255, 255, 255, 255, 0, 0, 0, 0>>

\* key seeds: the bytes from..from+15
SeedFrom(from) == [i \in 1..KeySeedSize |-> from + i - 1]

NoHdesc == [len |-> 0]
NoHeader == [state |-> "none"]
HdrIdle == hdesc = NoHdesc /\ hbuf = <<>> /\ parsed = NoHeader

\* a buffer that starts like a superblock: cut short, exact, or followed by
\* more bytes; version, format and inode block count right or wrong
HdrInit ==
    /\ \E ver \in {ToLE(VERSION, 8), ToLE(0, 8), ToLE(2, 8), Above32(VERSION)},
          fmt \in {ToLE(FORMAT, 8), ToLE(FORMAT + 1, 8), Above32(FORMAT)},
          nib \in {ToLE(1, 8), U32MaxField, Above32(1), Above32(0)},
          seed \in {SeedFrom(1), SeedFrom(100)},
          md \in {0, 5},
          len \in {0, PfsHeaderRawSize - 1, PfsHeaderRawSize, KeySeedOffset,
                   HEADER_SIZE - 1, HEADER_SIZE, HEADER_SIZE + MaxHdrExtra} :
          hdesc = [version |-> ver, format |-> fmt, mode |-> md, block_size |-> 4096,
                   ndinode |-> 2, ndinodeblock |-> nib, superroot_ino |-> 1,
                   key_seed |-> seed, len |-> len]
    /\ hbuf = LET bytes == PfsHeaderBytes(hdesc) \o SeedFrom(200) \o Zeros(MaxHdrExtra) IN
              SubSeq(bytes, 1, hdesc.len)
    /\ parsed = NoHeader

\* PfsHeader::from_bytes on the buffer
HdrFromBytes ==
    /\ parsed = NoHeader
    /\ parsed' = PfsHeaderFromBytes(hbuf)
    /\ UNCHANGED <<hdesc, hbuf>>

----------------------------------------------------------------------------
(* EncryptedSlice *)

\* XTS_BLOCK_SIZE = 0x1000
XTS_BLOCK_SIZE == 4096

\* get_xts_keys: the data key and the tweak key derived from EKPFS and the
\* key seed (HMAC-SHA256 in the code; here a sum, which keeps what matters:
\* the keys depend on both)
GetXtsKeys(ekpfs, seed) ==
    [data_key |-> (ekpfs + seed[1]) % 256, tweak_key |-> (ekpfs + seed[KeySeedSize]) % 256]

\* get_tweak_default(sector): the sector index as 16 little-endian bytes
GetTweakDefault(block) == ToLE(block, 16)

\* the byte the cipher adds at position i of a sector under a tweak
\* (XTS-AES-128 in the code; here a keyed shift of every byte that depends
\* on the keys, the tweak and the position)
XtsPad(cipher, tweak, i) ==
    cipher.data_key + cipher.tweak_key * (tweak[1] + 3 * tweak[16] + 1) + i

\* Xts128::encrypt_sector
XtsEncryptSector(cipher, sector, tweak) ==
    [i \in 1..Len(sector) |-> (sector[i] + XtsPad(cipher, tweak, i)) % 256]

\* Xts128::decrypt_sector
XtsDecryptSector(cipher, sector, tweak) ==
    [i \in 1..Len(sector) |-> (sector[i] - XtsPad(cipher, tweak, i)) % 256]

\* EncryptedSlice::encrypt_sector
EncryptSector(enc, sector_index, sector_data) ==
    IF sector_index >= enc.encrypted_start
    THEN XtsEncryptSector(enc.cipher, sector_data, GetTweakDefault(sector_index))
    ELSE sector_data

\* a decrypt_sector that takes the tweak of the following sector
DecryptSectorNextTweak(enc, sector_index, sector_data) ==
    IF sector_index >= enc.encrypted_start
    THEN XtsDecryptSector(enc.cipher, sector_data, GetTweakDefault(sector_index + 1))
    ELSE sector_data

\* EncryptedSlice::decrypt_sector
DecryptSector(enc, sector_index, sector_data) ==
    IF sector_index >= enc.encrypted_start
    THEN XtsDecryptSector(enc.cipher, sector_data, GetTweakDefault(sector_index))
    ELSE sector_data

RECURSIVE EncReadLoop(_, _, _, _)
\* the loop of EncryptedSlice::read_at
EncReadLoop(enc, buf, copied, pos) ==
    LET len == Len(enc.data) IN
    IF ~(copied < Len(buf) /\ pos < len)
    THEN [ok |-> TRUE, n |-> copied, bytes |-> SubSeq(buf, 1, copied)]
    ELSE LET block == pos \div XTS_BLOCK_SIZE
             offset_in_block == pos % XTS_BLOCK_SIZE
             block_start == block * XTS_BLOCK_SIZE
         IN  IF block_start + XTS_BLOCK_SIZE > len
             THEN [ok |-> FALSE, n |-> 0, bytes |-> <<>>]
             ELSE LET src == SubSeq(enc.data, block_start + 1, block_start + XTS_BLOCK_SIZE)
                      scratch == IF block >= enc.encrypted_start
                                 THEN XtsDecryptSector(enc.cipher, src, GetTweakDefault(block))
                                 ELSE src
                      available == XTS_BLOCK_SIZE - offset_in_block
                      remaining_file == len - pos
                      n == Min(Min(available, remaining_file), Len(buf) - copied)
                  IN  EncReadLoop(enc,
                                  CopyInto(buf, copied,
                                           SubSeq(scratch, offset_in_block + 1,
                                                  offset_in_block + n)),
                                  copied + n, pos + n)

\* EncryptedSlice::read_at
EncReadAt(enc, offset, buflen) ==
    IF buflen = 0 \/ offset >= Len(enc.data)
    THEN [ok |-> TRUE, n |-> 0, bytes |-> <<>>]
    ELSE EncReadLoop(enc, Stale(buflen), 0, offset)

\* EncryptedSlice::len
EncLen(enc) == Len(enc.data)

\* EncryptedSlice::new
EncryptedSliceNew(data, cipher, encrypted_start) ==
    [data |-> data, cipher |-> cipher, encrypted_start |-> encrypted_start]

\* the plaintext of an encrypted slice: byte i tells its offset
PlainOf(n) == [i \in 1..n |-> (i * 7) % 251]

\* the slice that holds a plaintext: whole sectors from encrypted_start on
\* encrypted, a final partial sector as it is
EncryptWhole(plain, cipher, encrypted_start) ==
    LET enc == EncryptedSliceNew(<<>>, cipher, encrypted_start)
        whole == Len(plain) \div XTS_BLOCK_SIZE
    IN  Concat([k \in 1..whole |->
                   EncryptSector(enc, k - 1,
                                 SubSeq(plain, (k - 1) * XTS_BLOCK_SIZE + 1,
                                        k * XTS_BLOCK_SIZE))])
        \o SubSeq(plain, whole * XTS_BLOCK_SIZE + 1, Len(plain))

----------------------------------------------------------------------------
(* The five Image layers behind one read_at *)

\* PfsFileImage::len
PfsFileLen(p) == p.size

\* UnencryptedSlice::len
SliceLen(data) == Len(data)

\* UnencryptedSlice::read_at
UnencReadAt(data, offset, buflen) ==
    LET got == SliceReadAt(data, offset, buflen) IN
    [ok |-> TRUE, n |-> Len(got), bytes |-> got]

\* CowImage::len
CowLen(llen) == llen

NoLayer == [kind |-> "none"]
NoLayerRead == [op |-> "none", offset |-> 0, buflen |-> 0, ok |-> TRUE, n |-> 0,
                bytes |-> <<>>, len |-> 0]
\* no sector buffer in use
NoSector == [phase |-> "none", enc_index |-> 0, dec_index |-> 0, input |-> <<>>,
             data |-> <<>>]
LayerIdle == layer = NoLayer /\ lread = NoLayerRead /\ sbuf = NoSector

\* lengths of encrypted slices: empty, less than a sector, whole sectors,
\* whole sectors and a partial one
EncLens ==
    {0, MaxTail, XTS_BLOCK_SIZE, XTS_BLOCK_SIZE + MaxTail, 2 * XTS_BLOCK_SIZE}
\* offsets and buffer lengths of reads on them
EncOffsets ==
    {0, 1, XTS_BLOCK_SIZE - 1, XTS_BLOCK_SIZE, XTS_BLOCK_SIZE + 1,
     XTS_BLOCK_SIZE + MaxTail, 2 * XTS_BLOCK_SIZE - 1, 2 * XTS_BLOCK_SIZE}
EncBufLens == {0, 1, 2, XTS_BLOCK_SIZE, XTS_BLOCK_SIZE + 1}

\* an image of one of the five layers
LayerInit ==
    /\ \/ \E data \in BaseImages \cup {ImageOf(MaxBaseLen + 1)} :
             layer = [kind |-> "UnencryptedSlice", data |-> data]
       \/ \E n \in EncLens, start \in {0, 1} :
             LET cipher == GetXtsKeys(9, SeedFrom(1)) IN
             layer = [kind |-> "EncryptedSlice", plain |-> PlainOf(n),
                      enc |-> EncryptedSliceNew(EncryptWhole(PlainOf(n), cipher, start),
                                                cipher, start)]
       \/ \E n \in {0, MaxOrig - 1, MaxOrig}, kind \in {3, 4}, bs \in PfscBlockSizes,
             policy \in Policies :
             LET src == PfscStream(OrigData(kind, n), bs, policy, TRUE) IN
             /\ PfscOpenOf(src).state = "open"
             /\ layer = [kind |-> "PfscImage", source |-> src, img |-> PfscOpenOf(src)]
       \/ \E b \in BaseImages, offset \in Offsets, data \in WriteData :
             /\ ~AddOverflows(offset, Len(data))
             /\ layer = [kind |-> "CowImage", base |-> b,
                         overlay |-> IF Len(data) = 0 THEN <<>>
                                     ELSE MergeWrite(b, <<>>, offset, data).overlay,
                         logical_len |-> IF Len(data) = 0 THEN Len(b)
                                         ELSE UpdateLen(Len(b), offset + Len(data))]
       \/ \E bs \in BlockSizes, len \in 0..MaxMapLen :
             \E map \in BlockMaps(len), size \in {0, 1, len * bs, MaxMapLen * bs + 1} :
                layer = [kind |-> "PfsFileImage",
                         p |-> [image |-> ImageOf(MaxBlocks * bs), block_size |-> bs,
                                size |-> size, block_map |-> map]]
    /\ lread = NoLayerRead
    /\ sbuf = NoSector

\* the result of a read_at and the len() of the image it was made on
LayerRead(offset, buflen, r, len) ==
    [op |-> "read", offset |-> offset, buflen |-> buflen, ok |-> r.ok, n |-> r.n,
     bytes |-> r.bytes, len |-> len]

\* UnencryptedSlice::read_at
ReadUnencrypted(offset, buflen) ==
    /\ layer.kind = "UnencryptedSlice"
    /\ lread' = LayerRead(offset, buflen, UnencReadAt(layer.data, offset, buflen),
                          SliceLen(layer.data))
    /\ UNCHANGED <<layer, sbuf>>

\* EncryptedSlice::read_at
ReadEncrypted(offset, buflen) ==
    /\ layer.kind = "EncryptedSlice"
    /\ lread' = LayerRead(offset, buflen, EncReadAt(layer.enc, offset, buflen),
                          EncLen(layer.enc))
    /\ UNCHANGED <<layer, sbuf>>

\* the largest sector index handed to encrypt_sector and decrypt_sector
MaxSector == 2

\* sector buffers handed to encrypt_sector: XTS_BLOCK_SIZE bytes each
SectorInputs ==
    {PlainOf(XTS_BLOCK_SIZE), [i \in 1..XTS_BLOCK_SIZE |-> 0],
     [i \in 1..XTS_BLOCK_SIZE |-> 255 - (i % 2)]}
\* sector indexes: before, at and after encrypted_start
SectorIndexes == 0..MaxSector

\* EncryptedSlice::encrypt_sector on a caller's buffer
EncryptSectorCall(sector_index, sector_data) ==
    /\ layer.kind = "EncryptedSlice"
    /\ sbuf.phase = "none"
    /\ sbuf' = [phase |-> "encrypted", enc_index |-> sector_index,
                  dec_index |-> 0, input |-> sector_data,
                  data |-> EncryptSector(layer.enc, sector_index, sector_data)]
    /\ UNCHANGED <<layer, lread>>

\* EncryptedSlice::decrypt_sector on the buffer encrypt_sector left
DecryptSectorCall(sector_index) ==
    /\ layer.kind = "EncryptedSlice"
    /\ sbuf.phase = "encrypted"
    /\ sbuf' = [sbuf EXCEPT !.phase = "decrypted", !.dec_index = sector_index,
                                !.data = DecryptSector(layer.enc, sector_index,
                                                       sbuf.data)]
    /\ UNCHANGED <<layer, lread>>

\* EncryptedSlice::read_at of the whole sector, on a slice that holds the
\* buffer encrypt_sector left at the sbuf's place
ReadSectorBack ==
    /\ layer.kind = "EncryptedSlice"
    /\ sbuf.phase = "encrypted"
    /\ LET at == sbuf.enc_index * XTS_BLOCK_SIZE
           held == EncryptedSliceNew([i \in 1..at |-> 0] \o sbuf.data,
                                     layer.enc.cipher, layer.enc.encrypted_start)
           r == EncReadAt(held, at, XTS_BLOCK_SIZE)
       IN  sbuf' = [sbuf EXCEPT !.phase = IF r.ok THEN "read" ELSE "failed",
                                    !.dec_index = sbuf.enc_index,
                                    !.data = r.bytes]
    /\ UNCHANGED <<layer, lread>>

\* PfscImage::read_at
ReadPfsc(offset, buflen) ==
    /\ layer.kind = "PfscImage"
    /\ lread' = LayerRead(offset, buflen,
                          PfscReadAtOf(layer.img, layer.source, offset, buflen),
                          PfscLen(layer.img))
    /\ UNCHANGED <<layer, sbuf>>

\* CowImage::read_at
ReadCow(offset, buflen) ==
    /\ layer.kind = "CowImage"
    /\ lread' = LayerRead(offset, buflen,
                          CowReadAt(layer.base, layer.overlay, layer.logical_len,
                                    offset, buflen),
                          CowLen(layer.logical_len))
    /\ UNCHANGED <<layer, sbuf>>

\* PfsFileImage::read_at
ReadPfsFile(offset, buflen) ==
    /\ layer.kind = "PfsFileImage"
    /\ lread' = LayerRead(offset, buflen, PfsReadAt(layer.p, offset, buflen),
                          PfsFileLen(layer.p))
    /\ UNCHANGED <<layer, sbuf>>

----------------------------------------------------------------------------
(* Inode::from_raw32_unsigned, from_raw32_signed and the open functions *)

\* size_of::<InodeRaw>()
InodeRawSize == 100
\* the length of a signature before a block pointer of a signed inode
SigSize == 32

\* a block pointer read from the image: 0xffffffff is the largest u32,
\* which marks a contiguous inode
PtrOf(bytes) == IF bytes = <<255, 255, 255, 255>> THEN U32_MAX ELSE FromLE(bytes)

\* the bytes of a block pointer
PtrBytes(v) == IF v = U32_MAX THEN <<255, 255, 255, 255>> ELSE ToLE(v, 4)

\* Inode::from_raw32_unsigned / from_raw32_signed: the inode and the rest
\* of the block
InodeFromRaw32(signed, index, src) ==
    LET entry == IF signed THEN SigSize + 4 ELSE 4
        value == IF signed THEN SigSize ELSE 0
        pointers == (DirectCount + IndirectCount) * entry
    IN  IF Len(src) < InodeRawSize THEN [state |-> "TooSmall"]
        ELSE IF Len(src) - InodeRawSize < pointers THEN [state |-> "TooSmall"]
        ELSE LET block_data == SubSeq(src, InodeRawSize + 1, InodeRawSize + pointers) IN
             [state |-> "ok",
              inode |-> [index |-> index,
                         mode |-> FromLE(Field(src, 0, 2)),
                         flags |-> FromLE(Field(src, 4, 4)),
                         size |-> FromLE(Field(src, 8, 8)),
                         blocks |-> FromLE(Field(src, 96, 4)),
                         direct_blocks |->
                             [i \in 1..DirectCount |->
                                 PtrOf(Field(block_data, (i - 1) * entry + value, 4))],
                         indirect_blocks |->
                             [i \in 1..IndirectCount |->
                                 PtrOf(Field(block_data,
                                             (DirectCount + i - 1) * entry + value, 4))],
                         signed |-> signed],
              rest |-> SubSeq(src, InodeRawSize + pointers + 1, Len(src))]

RECURSIVE ParseInodesFromBlock(_, _, _, _)
\* parse_inodes_from_block: done when inode_count inodes are there
ParseInodesFromBlock(src, mode, inodes, inode_count) ==
    IF ~(Len(inodes) < inode_count) THEN [done |-> TRUE, inodes |-> inodes]
    ELSE LET r == InodeFromRaw32(IsSigned(mode), Len(inodes), src) IN
         IF r.state = "TooSmall" THEN [done |-> FALSE, inodes |-> inodes]
         ELSE ParseInodesFromBlock(r.rest, mode, Append(inodes, r.inode), inode_count)

\* InodeFlags::is_compressed
IsCompressed(flags) == flags % 2 = 1

\* a test that takes every inode with blocks for contiguous
ContiguousBlocksAlways(ino) ==
    IF ino.blocks = 0 THEN [some |-> FALSE]
    ELSE [some |-> TRUE, start |-> ino.direct_blocks[1], count |-> ino.blocks]

\* Inode::contiguous_blocks
ContiguousBlocks(ino) ==
    IF ino.blocks = 0 THEN [some |-> FALSE]
    ELSE IF ino.direct_blocks[2] = ContiguousMark
    THEN [some |-> TRUE, start |-> ino.direct_blocks[1], count |-> ino.blocks]
    ELSE IF ino.blocks = 1
    THEN [some |-> TRUE, start |-> ino.direct_blocks[1], count |-> 1]
    ELSE [some |-> FALSE]

RECURSIVE IsPowerOfTwo(_)
\* u32::is_power_of_two
IsPowerOfTwo(n) == n = 1 \/ (n > 1 /\ n % 2 = 0 /\ IsPowerOfTwo(n \div 2))

\* a check that lets every block size but 0 through
BlockSizeNonZero(block_size) == block_size > 0

\* block_size > 0 && block_size.is_power_of_two()
BlockSizeValid(block_size) == block_size > 0 /\ IsPowerOfTwo(block_size)

\* the images the open functions read: a plain slice or an encrypted one
UnencryptedSliceNew(data) == [kind |-> "UnencryptedSlice", data |-> data]
EncryptedImage(enc) == [kind |-> "EncryptedSlice", enc |-> enc]

\* Image::len of either
ImageLen(image) ==
    IF image.kind = "EncryptedSlice" THEN EncLen(image.enc) ELSE SliceLen(image.data)

\* what read_at yields over the whole image: the slice itself, or the
\* sectors of an encrypted slice as EncryptedSlice::read_at returns them,
\* read one sector at a time
ImageBytes(image) ==
    IF image.kind = "EncryptedSlice"
    THEN Concat([k \in 1..((EncLen(image.enc) + XTS_BLOCK_SIZE - 1) \div XTS_BLOCK_SIZE) |->
                    EncReadAt(image.enc, (k - 1) * XTS_BLOCK_SIZE, XTS_BLOCK_SIZE).bytes])
    ELSE image.data

\* Option<&[u8]>
NoneData == [some |-> FALSE, bytes |-> <<>>]
SomeData(data) == [some |-> TRUE, bytes |-> data]

RECURSIVE ReadInodeBlocks(_, _, _, _, _, _)
\* the loop of open_inner over the inode blocks
ReadInodeBlocks(bytes, block_size, mode, inode_count, inode_block_count, st) ==
    IF st.block_num >= inode_block_count THEN [state |-> "ok", inodes |-> st.inodes]
    ELSE LET offset == block_size + st.block_num * block_size
             got == ReadExactAt(bytes, offset, Zeros(block_size))
             r == ParseInodesFromBlock(got.buf, mode, st.inodes, inode_count)
         IN  IF ~got.ok THEN [state |-> "ReadBlockFailed", inodes |-> <<>>]
             ELSE IF r.done THEN [state |-> "ok", inodes |-> r.inodes]
             ELSE ReadInodeBlocks(bytes, block_size, mode, inode_count, inode_block_count,
                                  [block_num |-> st.block_num + 1, inodes |-> r.inodes])

RECURSIVE PrecomputeBlockMaps(_, _, _, _, _)
\* precompute_block_maps
PrecomputeBlockMaps(inodes, bytes, block_size, overflow_checks, maps) ==
    IF Len(maps) = Len(inodes) THEN [state |-> "ok", maps |-> maps]
    ELSE LET m == LoadBlockMap(inodes[Len(maps) + 1], bytes, block_size, overflow_checks) IN
         IF m.state = "panic" THEN [state |-> "panic", maps |-> <<>>]
         ELSE IF m.state # "ok" THEN [state |-> "LoadBlockMapFailed", maps |-> <<>>]
         ELSE PrecomputeBlockMaps(inodes, bytes, block_size, overflow_checks,
                                  Append(maps, m.blocks))

Failed(error) == [state |-> error]

\* open_inner
OpenInner(image, h, data, overflow_checks) ==
    LET block_size == h.block_size
        bytes == ImageBytes(image)
        loaded == ReadInodeBlocks(bytes, block_size, h.mode, h.inode_count,
                                  FromLE(h.inode_block_count),
                                  [block_num |-> 0, inodes |-> <<>>])
        maps == PrecomputeBlockMaps(loaded.inodes, bytes, block_size, overflow_checks, <<>>)
    IN  IF ~BlockSizeValid(block_size) THEN Failed("InvalidBlockSize")
        ELSE IF loaded.state # "ok" THEN Failed(loaded.state)
        ELSE IF ~(h.super_root_inode < Len(loaded.inodes)) THEN Failed("InvalidSuperRoot")
        ELSE IF maps.state # "ok" THEN Failed(maps.state)
        ELSE [state |-> "ok", image |-> image, inodes |-> loaded.inodes,
              block_maps |-> maps.maps, root |-> h.super_root_inode,
              block_size |-> block_size, data |-> data,
              overflow_checks |-> overflow_checks]

\* ekpfs: Option<&[u8]>
NoEkpfs == [some |-> FALSE, key |-> 0]
Ekpfs(key) == [some |-> TRUE, key |-> key]

\* open_slice
OpenSlice(data, ekpfs, overflow_checks) ==
    LET h == PfsHeaderFromBytes(data) IN
    IF h.state # "ok" THEN Failed("ReadHeaderFailed")
    ELSE IF IsEncrypted(h.mode)
    THEN IF ~(h.block_size >= XTS_BLOCK_SIZE) THEN Failed("EncryptionBlockSizeTooSmall")
         ELSE IF ~ekpfs.some THEN Failed("EmptyEkpfs")
         ELSE OpenInner(EncryptedImage(
                            EncryptedSliceNew(data, GetXtsKeys(ekpfs.key, h.key_seed),
                                              h.block_size \div XTS_BLOCK_SIZE)),
                        h, NoneData, overflow_checks)
    ELSE OpenInner(UnencryptedSliceNew(data), h, SomeData(data), overflow_checks)

\* open_slice_encrypted
OpenSliceEncrypted(data, ekpfs, overflow_checks) ==
    LET h == PfsHeaderFromBytes(data) IN
    IF h.state # "ok" THEN Failed("ReadHeaderFailed")
    ELSE IF ~(h.block_size >= XTS_BLOCK_SIZE) THEN Failed("EncryptionBlockSizeTooSmall")
    ELSE OpenInner(EncryptedImage(
                       EncryptedSliceNew(data, GetXtsKeys(ekpfs.key, h.key_seed),
                                         h.block_size \div XTS_BLOCK_SIZE)),
                   h, NoneData, overflow_checks)

\* open_slice_unencrypted
OpenSliceUnencrypted(data, overflow_checks) ==
    LET h == PfsHeaderFromBytes(data) IN
    IF h.state # "ok" THEN Failed("ReadHeaderFailed")
    ELSE OpenInner(UnencryptedSliceNew(data), h, SomeData(data), overflow_checks)

\* open_image, on an UnencryptedSlice
OpenImage(image, overflow_checks) ==
    LET header_buf == ReadExactAt(ImageBytes(image), 0, Zeros(HEADER_SIZE))
        h == PfsHeaderFromBytes(header_buf.buf)
    IN  IF ~header_buf.ok THEN Failed("ReadHeaderIoFailed")
        ELSE IF h.state # "ok" THEN Failed("ReadHeaderFailed")
        ELSE IF IsEncrypted(h.mode) THEN Failed("UnsupportedMode")
        ELSE OpenInner(image, h, NoneData, overflow_checks)

----------------------------------------------------------------------------
(* Images for the open functions *)

\* the bytes of an inode: InodeRaw, then the 12 direct and 5 indirect block
\* pointers, each after a signature when signed
InodeBytes(ino, signed) ==
    LET sig == IF signed THEN [i \in 1..SigSize |-> 1] ELSE <<>> IN
    ToLE(ino.mode, 2) \o ToLE(1, 2) \o ToLE(ino.flags, 4) \o ToLE(ino.size, 8)
    \o ToLE(ino.size, 8) \o Zeros(72) \o ToLE(ino.blocks, 4)
    \o Concat([i \in 1..DirectCount |-> sig \o PtrBytes(ino.direct_blocks[i])])
    \o Concat([i \in 1..IndirectCount |-> sig \o PtrBytes(ino.indirect_blocks[i])])

\* bytes cut or zero-filled to n
PadTo(bytes, n) == [i \in 1..n |-> IF i <= Len(bytes) THEN bytes[i] ELSE 0]

\* file data: the byte at offset p of block b tells b and p
DataBlock(b, block_size) == [i \in 1..block_size |-> 1 + ((b * 16 + i) % 100)]

\* inodes of an inode block of block_size bytes
InodesPerBlock(signed, block_size) ==
    block_size \div (InodeRawSize + (DirectCount + IndirectCount)
                                     * (IF signed THEN SigSize + 4 ELSE 4))

\* mode of a directory and of a file inode
ModeDir == 16384
ModeFile == 32768

\* the inode of a directory with one block
DirInode(block) ==
    [mode |-> ModeDir, flags |-> 0, size |-> 0, blocks |-> 1,
     direct_blocks |-> DirectBlocks(block, 0), indirect_blocks |-> IndirectBlocks(0, 0)]

\* the inode of the file: f0 and f1 are its data blocks
FileKinds == {"empty", "one", "marked", "unmarked", "compressed", "beyond", "uncovered"}
FileInode(kind, f0, f1, block_size) ==
    CASE kind = "empty" ->
           [mode |-> ModeFile, flags |-> 0, size |-> 0, blocks |-> 0,
            direct_blocks |-> DirectBlocks(0, 0), indirect_blocks |-> IndirectBlocks(0, 0)]
      [] kind = "one" ->
           [mode |-> ModeFile, flags |-> 0, size |-> 10, blocks |-> 1,
            direct_blocks |-> DirectBlocks(f0, 0), indirect_blocks |-> IndirectBlocks(0, 0)]
      [] kind = "marked" ->
           [mode |-> ModeFile, flags |-> 0, size |-> block_size + 10, blocks |-> 2,
            direct_blocks |-> DirectBlocks(f0, ContiguousMark),
            indirect_blocks |-> IndirectBlocks(0, 0)]
      [] kind = "unmarked" ->
           [mode |-> ModeFile, flags |-> 0, size |-> block_size + 10, blocks |-> 2,
            direct_blocks |-> DirectBlocks(f0, f1), indirect_blocks |-> IndirectBlocks(0, 0)]
      [] kind = "compressed" ->
           [mode |-> ModeFile, flags |-> 1, size |-> 10, blocks |-> 1,
            direct_blocks |-> DirectBlocks(f0, 0), indirect_blocks |-> IndirectBlocks(0, 0)]
      [] kind = "uncovered" ->
           [mode |-> ModeFile, flags |-> 0, size |-> block_size + 10, blocks |-> 1,
            direct_blocks |-> DirectBlocks(f0, 0), indirect_blocks |-> IndirectBlocks(0, 0)]
      [] OTHER ->
           [mode |-> ModeFile, flags |-> 0, size |-> block_size + 10, blocks |-> 2,
            direct_blocks |-> DirectBlocks(f1, ContiguousMark),
            indirect_blocks |-> IndirectBlocks(0, 0)]

\* the dirents of the root directory: inode 1 is a directory, inode 2 the
\* file, inode 3 does not exist
RootKinds == {"tree", "dangling", "dangling self"}
RootDirents(kind) ==
    CASE kind = "tree" ->
           <<Dirent(0, DirentSelf, NameDot, DirentSize), Dirent(1, DirentDirectory, NameAB, DirentSize),
             Dirent(2, DirentFile, NameA, DirentSize)>>
      [] kind = "dangling" ->
           <<Dirent(2, DirentFile, NameA, DirentSize), Dirent(3, DirentFile, NameB, DirentSize)>>
      [] OTHER ->
           <<Dirent(1, DirentDirectory, NameAB, DirentSize), Dirent(3, DirentSelf, NameDot, DirentSize)>>

\* the dirents of the directory of inode 1
SubDirents == <<Dirent(1, DirentSelf, NameDot, DirentSize), Dirent(2, DirentFile, NameB, DirentSize)>>

\* number of inodes written
WrittenInodes == 3

\* the blocks of the image: the superblock, the inode blocks, the two
\* directories, the two data blocks
InodeBlocks(d) == (WrittenInodes + InodesPerBlock(d.signed, d.block_size) - 1)
                  \div InodesPerBlock(d.signed, d.block_size)
RootBlock(d) == 1 + InodeBlocks(d)
SubBlock(d) == 2 + InodeBlocks(d)
File0Block(d) == 3 + InodeBlocks(d)
File1Block(d) == 4 + InodeBlocks(d)

\* the inodes written
InodesOf(d) ==
    <<DirInode(RootBlock(d)), DirInode(SubBlock(d)),
      FileInode(d.file, File0Block(d), File1Block(d), d.block_size)>>

\* the superblock written
HeaderOf(d) ==
    [version |-> ToLE(VERSION, 8), format |-> ToLE(FORMAT, 8),
     mode |-> (IF d.signed THEN 1 ELSE 0) + (IF d.encrypted THEN 4 ELSE 0),
     block_size |-> d.block_size, ndinode |-> WrittenInodes,
     ndinodeblock |-> ToLE(d.ndinodeblock, 8), superroot_ino |-> d.superroot,
     key_seed |-> SeedFrom(1)]

RECURSIVE InodeTable(_, _, _)
\* the inode blocks: as many inodes in each as fit whole
InodeTable(inodes, signed, block_size) ==
    IF inodes = <<>> THEN <<>>
    ELSE LET k == Min(Len(inodes), InodesPerBlock(signed, block_size)) IN
         PadTo(Concat([i \in 1..k |-> InodeBytes(inodes[i], signed)]), block_size)
         \o InodeTable(SubSeq(inodes, k + 1, Len(inodes)), signed, block_size)

\* the image before encryption; with a block size that open refuses, the
\* superblock alone
PlainImage(d) ==
    IF ~BlockSizeValid(d.block_size) \/ d.block_size < HEADER_SIZE
    THEN PfsHeaderBytes(HeaderOf(d))
    ELSE PadTo(PfsHeaderBytes(HeaderOf(d)), d.block_size)
         \o InodeTable(InodesOf(d), d.signed, d.block_size)
         \o PadTo(Concat([i \in 1..Len(RootDirents(d.root)) |->
                             DirentBytes(RootDirents(d.root)[i])]), d.block_size)
         \o PadTo(Concat([i \in 1..Len(SubDirents) |-> DirentBytes(SubDirents[i])]),
                  d.block_size)
         \o DataBlock(File0Block(d), d.block_size)
         \o DataBlock(File1Block(d), d.block_size)

\* the key the encrypted images are encrypted with
DiskKey == 9

\* the image: every sector after the first block encrypted when the
\* superblock says so
DiskImage(d) ==
    IF d.encrypted /\ BlockSizeValid(d.block_size) /\ d.block_size >= XTS_BLOCK_SIZE
    THEN EncryptWhole(PlainImage(d), GetXtsKeys(DiskKey, SeedFrom(1)),
                      d.block_size \div XTS_BLOCK_SIZE)
    ELSE PlainImage(d)

NoDisk == [block_size |-> 0]
NoArgs == [fn |-> "none"]
NoOpened == [state |-> "none"]
NoOlisting == [state |-> "none", items |-> <<>>]
NoZc == [op |-> "none"]
OpenIdle ==
    /\ disk = NoDisk /\ args = NoArgs /\ opened = NoOpened /\ handles = {}
    /\ olisting = NoOlisting /\ zc = NoZc

OpenBlockSizes == {0, 1024, 1536, 4096, 6144}
OpenFns == {"open_slice", "open_slice_encrypted", "open_slice_unencrypted", "open_image"}

\* what an image is built from
DiskOf(bs, enc, sg, short, sr, rk, fk) ==
    LET d == [block_size |-> bs, encrypted |-> enc, signed |-> sg, superroot |-> sr,
              root |-> rk, file |-> fk, ndinodeblock |-> 1] IN
    [d EXCEPT !.ndinodeblock = IF BlockSizeValid(bs) /\ bs >= HEADER_SIZE
                               THEN InodeBlocks(d) - (IF short THEN 1 ELSE 0) ELSE 1]

\* the calls: an image, the open function, the key given and the build
Call(d, f, key, checks) == [disk |-> d, fn |-> f, ekpfs |-> key, overflow_checks |-> checks]

\* every block size, with and without the encrypted bit, through every
\* open function, with and without a key
GateCalls ==
    {Call(DiskOf(bs, enc, FALSE, FALSE, 0, "tree", "one"), f, key, TRUE) :
        bs \in OpenBlockSizes, enc \in BOOLEAN, f \in OpenFns,
        key \in {NoEkpfs, Ekpfs(DiskKey)}}

\* every root directory under every super-root index, with unsigned and
\* signed inodes and with one inode block less than the inodes need
TreeCalls ==
    {Call(DiskOf(1024, FALSE, sg[1], sg[2], sr, rk, "one"), f, NoEkpfs, checks) :
        sg \in {<<FALSE, FALSE>>, <<TRUE, FALSE>>, <<TRUE, TRUE>>}, sr \in {0, 2, 3},
        rk \in RootKinds, f \in {"open_slice", "open_image"}, checks \in BOOLEAN}
    \cup {Call(DiskOf(XTS_BLOCK_SIZE, TRUE, FALSE, FALSE, sr, rk, "one"), "open_slice",
               Ekpfs(DiskKey), TRUE) : sr \in {0, 3}, rk \in RootKinds}

\* every file through every open function that opens its image
FileCalls ==
    {Call(DiskOf(1024, FALSE, FALSE, FALSE, 0, "tree", fk), f, NoEkpfs, TRUE) :
        fk \in FileKinds, f \in {"open_slice", "open_slice_unencrypted", "open_image"}}
    \cup {Call(DiskOf(XTS_BLOCK_SIZE, TRUE, FALSE, FALSE, 0, "tree", fk), f,
               Ekpfs(DiskKey), TRUE) :
             fk \in FileKinds, f \in {"open_slice", "open_slice_encrypted"}}

\* an image and the open function called on it. open_slice_unencrypted is
\* given images without the encrypted bit, open_slice_encrypted images
\* with it and a key, and a key that is given is the key of the image
OpenInit ==
    /\ \E c \in GateCalls \cup TreeCalls \cup FileCalls :
          /\ c.fn = "open_slice_unencrypted" => ~c.disk.encrypted
          /\ c.fn = "open_slice_encrypted" => c.disk.encrypted /\ c.ekpfs.some
          /\ c.fn \in {"open_slice_unencrypted", "open_image"} => ~c.ekpfs.some
          /\ disk = c.disk
          /\ args = [fn |-> c.fn, ekpfs |-> c.ekpfs,
                     overflow_checks |-> c.overflow_checks]
    /\ opened = NoOpened
    /\ handles = {}
    /\ olisting = NoOlisting
    /\ zc = NoZc

\* data: &'a [u8], the caller's slice: the bytes of the image
Data == DiskImage(disk)

\* a Pfs<'a> borrows the caller's slice, in its image layer and in its
\* data, and holds no copy of the bytes
Borrow(p) ==
    IF p.state # "ok" THEN p
    ELSE [p EXCEPT !.image = IF @.kind = "EncryptedSlice"
                             THEN [@ EXCEPT !.enc.data = <<>>]
                             ELSE [@ EXCEPT !.data = <<>>],
                   !.data = [@ EXCEPT !.bytes = <<>>]]

\* the Pfs with the bytes its borrows refer to
Deref(p, data) ==
    [p EXCEPT !.image = IF @.kind = "EncryptedSlice"
                        THEN [@ EXCEPT !.enc.data = data]
                        ELSE [@ EXCEPT !.data = data],
              !.data = IF @.some THEN [@ EXCEPT !.bytes = data] ELSE @]

\* the call of the open function
OpenCall ==
    /\ opened = NoOpened
    /\ \E data \in {Data} :
          opened' = Borrow(CASE args.fn = "open_slice" ->
                                  OpenSlice(data, args.ekpfs, args.overflow_checks)
                             [] args.fn = "open_slice_encrypted" ->
                                  OpenSliceEncrypted(data, args.ekpfs, args.overflow_checks)
                             [] args.fn = "open_slice_unencrypted" ->
                                  OpenSliceUnencrypted(data, args.overflow_checks)
                             [] OTHER ->
                                  OpenImage(UnencryptedSliceNew(data), args.overflow_checks))
    /\ UNCHANGED <<disk, args, handles, olisting, zc>>

\* Pfs::inode_count
InodeCount(p) == Len(p.inodes)

\* Directory::new / File::new
DirectoryNew(index) == [kind |-> "Directory", inode |-> index]
FileNew(index) == [kind |-> "File", inode |-> index]

\* Pfs::root
Root ==
    /\ opened.state = "ok"
    /\ handles = {}
    /\ handles' = {DirectoryNew(opened.root)}
    /\ UNCHANGED <<disk, args, opened, olisting, zc>>

\* Directory::open on a handle; its entries are new handles
OpenDirectory(h) ==
    /\ opened.state = "ok"
    /\ h \in handles /\ h.kind = "Directory"
    /\ \E bytes \in {ImageBytes(Deref(opened, Data).image)} :
       \E r \in {DirectoryOpen([image |-> bytes,
                                 block_size |-> opened.block_size,
                                 inode_count |-> InodeCount(opened),
                                 block_map |-> opened.block_maps[h.inode + 1],
                                 overflow_checks |-> opened.overflow_checks])} :
           /\ olisting' = [state |-> r.state, items |-> r.items, of |-> h]
           /\ handles' = handles \cup
                  {IF r.items[i].entry.kind = "File" THEN FileNew(r.items[i].entry.inode)
                   ELSE DirectoryNew(r.items[i].entry.inode) : i \in 1..Len(r.items)}
    /\ UNCHANGED <<disk, args, opened, zc>>

\* File::as_slice; the &[u8] returned is told by where it starts in the
\* caller's slice and by its length
FileAsSlice(p, index) ==
    LET ino == p.inodes[index + 1]
        cb == ContiguousBlocks(ino)
        start == cb.start * p.block_size
        end == start + ino.size
    IN  IF ~p.data.some THEN [some |-> FALSE]
        ELSE IF IsCompressed(ino.flags) THEN [some |-> FALSE]
        ELSE IF ino.size = 0 THEN [some |-> TRUE, start |-> 0, len |-> 0]
        ELSE IF ~cb.some THEN [some |-> FALSE]
        ELSE IF end > Len(p.data.bytes) THEN [some |-> FALSE]
        ELSE [some |-> TRUE, start |-> start, len |-> end - start]

\* File::as_slice on a handle
AsSlice(h) ==
    /\ opened.state = "ok"
    /\ h \in handles /\ h.kind = "File"
    /\ \E data \in {Data} :
          zc' = [op |-> "as_slice", of |-> h,
                 result |-> FileAsSlice(Deref(opened, data), h.inode)]
    /\ UNCHANGED <<disk, args, opened, handles, olisting>>

\* File::read_at(0, buf) with buf.len() == inode.size, on the handle
\* as_slice was called on
ReadWhole(h) ==
    /\ opened.state = "ok"
    /\ zc.op = "as_slice" /\ h = zc.of
    /\ \E bytes \in {ImageBytes(Deref(opened, Data).image)} :
          \E r \in {PfsReadAt([image |-> bytes, block_size |-> opened.block_size,
                               size |-> opened.inodes[h.inode + 1].size,
                               block_map |-> opened.block_maps[h.inode + 1]],
                              0, opened.inodes[h.inode + 1].size)} :
             zc' = [op |-> "read_at", of |-> h, result |-> zc.result,
                    read |-> [ok |-> r.ok, n |-> r.n, bytes |-> r.bytes]]
    /\ UNCHANGED <<disk, args, opened, handles, olisting>>

----------------------------------------------------------------------------
(* State *)

NoCall == [op |-> "none", offset |-> 0, data |-> <<>>, buflen |-> 0, len |-> 0]
NoRes == [op |-> "none", ok |-> TRUE, n |-> 0, bytes |-> <<>>,
          offset |-> 0, data |-> <<>>, buflen |-> 0, merged |-> 0, err |-> "none"]
NoHist == [refAtCall |-> <<>>, dirty |-> {}, seen |-> {}]
Unlocked == [writer |-> 0, readers |-> {}]

\* CowImage::new
CowInit ==
    /\ base \in BaseImages
    /\ overlay = <<>>
    /\ logical_len = Len(base)
    /\ overlay_lock = Unlocked
    /\ len_lock = Unlocked
    /\ pc = [t \in Threads |-> "idle"]
    /\ call = [t \in Threads |-> NoCall]
    /\ res = [t \in Threads |-> NoRes]
    /\ ref = base
    /\ hist = [t \in Threads |-> NoHist]
    /\ nwrites = 0
    /\ touched = {}

----------------------------------------------------------------------------
(* One thread: every call runs to its end before the next begins *)

\* write_at(offset, data), whole
SeqWriteAt(offset, data) ==
    /\ IF Len(data) = 0
       THEN /\ UNCHANGED <<overlay, logical_len, ref>>
            /\ res' = [res EXCEPT ![1] = [NoRes EXCEPT !.op = "write", !.offset = offset]]
       ELSE IF AddOverflows(offset, Len(data))
       THEN /\ UNCHANGED <<overlay, logical_len, ref>>
            /\ res' = [res EXCEPT ![1] = [NoRes EXCEPT !.op = "write", !.ok = FALSE,
                                                       !.offset = offset, !.data = data,
                                                       !.err = "InvalidInput"]]
       ELSE LET m == MergeWrite(base, overlay, offset, data) IN
            /\ logical_len' = UpdateLen(logical_len, offset + Len(data))
            /\ overlay' = m.overlay
            /\ ref' = IF m.ok THEN Layer(ref, offset, data) ELSE ref
            /\ res' = [res EXCEPT ![1] = [NoRes EXCEPT !.op = "write", !.ok = m.ok,
                                                       !.offset = offset, !.data = data,
                                                       !.merged = m.merged]]
    /\ touched' = IF res'[1].ok /\ Len(data) > 0
                  THEN touched \cup (offset..(offset + Len(data) - 1))
                  ELSE touched
    /\ UNCHANGED <<base, overlay_lock, len_lock, pc, call, hist, nwrites>>

\* read_at(offset, buf), whole
SeqReadAt(offset, buflen) ==
    /\ LET r == CowReadAt(base, overlay, logical_len, offset, buflen) IN
       res' = [res EXCEPT ![1] = [NoRes EXCEPT !.op = "read", !.ok = r.ok, !.n = r.n,
                                               !.bytes = r.bytes, !.offset = offset,
                                               !.buflen = buflen]]
    /\ UNCHANGED <<base, overlay, logical_len, overlay_lock, len_lock, pc, call, ref, hist,
                   nwrites, touched>>

\* write_at(offset, data), whole, at a time when the base image fails its
\* reads with an I/O error that is not UnexpectedEof
SeqWriteAtBaseError(offset, data) ==
    /\ Len(data) > 0
    /\ ~AddOverflows(offset, Len(data))
    /\ LET m == MergeWriteBaseError(overlay, offset, data) IN
       /\ ~m.ok
       /\ logical_len' = UpdateLen(logical_len, offset + Len(data))
       /\ overlay' = m.overlay
       /\ res' = [res EXCEPT ![1] = [NoRes EXCEPT !.op = "write", !.ok = FALSE,
                                                  !.offset = offset, !.data = data,
                                                  !.merged = m.merged, !.err = "Other"]]
    /\ UNCHANGED <<base, ref, overlay_lock, len_lock, pc, call, hist, nwrites, touched>>

Init == CowInit /\ FileIdle /\ PfscIdle /\ InodeIdle /\ DirIdle /\ HdrIdle /\ LayerIdle /\ OpenIdle

Next ==
    /\ \/ \E offset \in Offsets, data \in WriteData : SeqWriteAt(offset, data)
       \/ \E offset \in Offsets, buflen \in BufLens : SeqReadAt(offset, buflen)
    /\ UNCHANGED <<fileVars, pfscVars, inodeVars, dirVars, hdrVars, layerVars, openVars>>

Spec == Init /\ [][Next]_vars

\* one thread on a CowImage whose base image at times fails its reads
NextBaseError ==
    /\ \/ \E offset \in Offsets, data \in WriteData : SeqWriteAt(offset, data)
       \/ \E offset \in Offsets, data \in WriteData : SeqWriteAtBaseError(offset, data)
    /\ UNCHANGED <<fileVars, pfscVars, inodeVars, dirVars, hdrVars, layerVars, openVars>>

SpecBaseError == Init /\ [][NextBaseError]_vars

----------------------------------------------------------------------------
(* Several threads on one CowImage: read_at and write_at step by step,      *)
(* one step per lock operation                                              *)

InRead(t) == pc[t] \in {"r_lock_len", "r_read_len", "r_lock_overlay", "r_patch"}

\* RwLock::read succeeds when no writer holds the lock
CanRead(lock) == lock.writer = 0
\* RwLock::write succeeds when nobody holds the lock
CanWrite(lock) == lock.writer = 0 /\ lock.readers = {}

\* history: every read in progress sees the new (overlay, length) state
Observe(h, ov, len) ==
    [t \in Threads |-> IF InRead(t) THEN [h[t] EXCEPT !.seen = @ \cup {<<ov, len>>}]
                       ELSE h[t]]

\* history: every read in progress notes the offsets a finished write covered
Dirty(h, offset, n) ==
    [t \in Threads |-> IF InRead(t)
                       THEN [h[t] EXCEPT !.dirty = @ \cup (offset..(offset + n - 1))]
                       ELSE h[t]]

\* a thread calls read_at(offset, buf)
CallRead(t, offset, buflen) ==
    /\ pc[t] = "idle"
    /\ pc' = [pc EXCEPT ![t] = "r_lock_len"]
    /\ call' = [call EXCEPT ![t] = [NoCall EXCEPT !.op = "read", !.offset = offset,
                                                  !.buflen = buflen]]
    /\ hist' = [hist EXCEPT ![t] = [refAtCall |-> ref, dirty |-> {},
                                    seen |-> {<<overlay, logical_len>>}]]
    /\ UNCHANGED <<base, overlay, logical_len, overlay_lock, len_lock, res, ref, nwrites, touched>>

\* self.logical_len.read()
ReadLockLen(t) ==
    /\ pc[t] = "r_lock_len"
    /\ CanRead(len_lock)
    /\ len_lock' = [len_lock EXCEPT !.readers = @ \cup {t}]
    /\ pc' = [pc EXCEPT ![t] = "r_read_len"]
    /\ UNCHANGED <<base, overlay, logical_len, overlay_lock, call, res, ref, hist, nwrites, touched>>

\* a read_at that keeps the length guard while it goes on to the overlay
ReadLenHoldsGuard(t) ==
    /\ pc[t] = "r_read_len"
    /\ IF call[t].buflen = 0 \/ call[t].offset >= logical_len
       THEN /\ pc' = [pc EXCEPT ![t] = "r_done"]
            /\ call' = [call EXCEPT ![t] = NoCall]
            /\ res' = [res EXCEPT ![t] = [NoRes EXCEPT !.op = "read",
                                                       !.offset = call[t].offset,
                                                       !.buflen = call[t].buflen]]
            /\ len_lock' = [len_lock EXCEPT !.readers = @ \ {t}]
       ELSE /\ pc' = [pc EXCEPT ![t] = "r_lock_overlay"]
            /\ call' = [call EXCEPT ![t].len = logical_len]
            /\ res' = res
            /\ len_lock' = len_lock
    /\ UNCHANGED <<base, overlay, logical_len, overlay_lock, ref, hist, nwrites, touched>>

\* let logical_len = *guard; the guard is dropped at the end of the
\* statement; then the early return for an empty buffer or an offset at or
\* past the length
ReadLen(t) ==
    /\ pc[t] = "r_read_len"
    /\ len_lock' = [len_lock EXCEPT !.readers = @ \ {t}]
    /\ IF call[t].buflen = 0 \/ call[t].offset >= logical_len
       THEN /\ pc' = [pc EXCEPT ![t] = "r_done"]
            /\ call' = [call EXCEPT ![t] = NoCall]
            /\ res' = [res EXCEPT ![t] = [NoRes EXCEPT !.op = "read",
                                                       !.offset = call[t].offset,
                                                       !.buflen = call[t].buflen]]
       ELSE /\ pc' = [pc EXCEPT ![t] = "r_lock_overlay"]
            /\ call' = [call EXCEPT ![t].len = logical_len]
            /\ res' = res
    /\ UNCHANGED <<base, overlay, logical_len, overlay_lock, ref, hist, nwrites, touched>>

\* the base fill touches no shared state; then self.overlay.read()
ReadLockOverlay(t) ==
    /\ pc[t] = "r_lock_overlay"
    /\ CanRead(overlay_lock)
    /\ overlay_lock' = [overlay_lock EXCEPT !.readers = @ \cup {t}]
    /\ pc' = [pc EXCEPT ![t] = "r_patch"]
    /\ UNCHANGED <<base, overlay, logical_len, len_lock, call, res, ref, hist, nwrites, touched>>

\* apply the overlay patches and return; the guard is dropped on return
ReadPatch(t) ==
    /\ pc[t] = "r_patch"
    /\ LET r == CowReadAt(base, overlay, call[t].len, call[t].offset, call[t].buflen) IN
       res' = [res EXCEPT ![t] = [NoRes EXCEPT !.op = "read", !.ok = r.ok, !.n = r.n,
                                               !.bytes = r.bytes,
                                               !.offset = call[t].offset,
                                               !.buflen = call[t].buflen]]
    /\ overlay_lock' = [overlay_lock EXCEPT !.readers = @ \ {t}]
    /\ pc' = [pc EXCEPT ![t] = "r_done"]
    /\ call' = [call EXCEPT ![t] = NoCall]
    /\ UNCHANGED <<base, overlay, logical_len, len_lock, ref, hist, nwrites, touched>>

\* the caller takes what read_at returned
ReadReturn(t) ==
    /\ pc[t] = "r_done"
    /\ pc' = [pc EXCEPT ![t] = "idle"]
    /\ res' = [res EXCEPT ![t] = NoRes]
    /\ hist' = [hist EXCEPT ![t] = NoHist]
    /\ UNCHANGED <<base, overlay, logical_len, overlay_lock, len_lock, call, ref, nwrites, touched>>

\* a thread calls write_at(offset, data): the empty-data and overflow
\* returns touch no shared state
CallWrite(t, offset, data) ==
    /\ pc[t] = "idle"
    /\ nwrites < MaxWrites
    /\ nwrites' = nwrites + 1
    /\ IF Len(data) = 0 \/ AddOverflows(offset, Len(data))
       THEN UNCHANGED <<pc, call>>
       ELSE /\ pc' = [pc EXCEPT ![t] = "w_lock_overlay"]
            /\ call' = [call EXCEPT ![t] = [NoCall EXCEPT !.op = "write",
                                                          !.offset = offset,
                                                          !.data = data]]
    /\ UNCHANGED <<base, overlay, logical_len, overlay_lock, len_lock, res, ref, hist,
                   touched>>

\* self.overlay.write()
WriteLockOverlay(t) ==
    /\ pc[t] = "w_lock_overlay"
    /\ CanWrite(overlay_lock)
    /\ overlay_lock' = [overlay_lock EXCEPT !.writer = t]
    /\ pc' = [pc EXCEPT ![t] = "w_lock_len"]
    /\ UNCHANGED <<base, overlay, logical_len, len_lock, call, res, ref, hist, nwrites, touched>>

\* self.logical_len.write()
WriteLockLen(t) ==
    /\ pc[t] = "w_lock_len"
    /\ CanWrite(len_lock)
    /\ len_lock' = [len_lock EXCEPT !.writer = t]
    /\ pc' = [pc EXCEPT ![t] = "w_update_len"]
    /\ UNCHANGED <<base, overlay, logical_len, overlay_lock, call, res, ref, hist, nwrites, touched>>

\* if new_end > *len { *len = new_end }; the length guard is dropped at the
\* end of the block
WriteUpdateLen(t) ==
    /\ pc[t] = "w_update_len"
    /\ logical_len' = UpdateLen(logical_len, call[t].offset + Len(call[t].data))
    /\ len_lock' = [len_lock EXCEPT !.writer = 0]
    /\ pc' = [pc EXCEPT ![t] = "w_merge"]
    /\ hist' = Observe(hist, overlay, logical_len')
    /\ UNCHANGED <<base, overlay, overlay_lock, call, res, ref, nwrites, touched>>

\* collect, remove, merge, insert; the overlay guard is dropped on return
WriteMerge(t) ==
    /\ pc[t] = "w_merge"
    /\ LET m == MergeWrite(base, overlay, call[t].offset, call[t].data) IN
       /\ overlay' = m.overlay
       /\ ref' = IF m.ok THEN Layer(ref, call[t].offset, call[t].data) ELSE ref
       /\ hist' = Dirty(Observe(hist, m.overlay, logical_len),
                        call[t].offset, Len(call[t].data))
       /\ touched' = IF m.ok
                     THEN touched \cup (call[t].offset
                                            ..(call[t].offset + Len(call[t].data) - 1))
                     ELSE touched
    /\ overlay_lock' = [overlay_lock EXCEPT !.writer = 0]
    /\ pc' = [pc EXCEPT ![t] = "idle"]
    /\ call' = [call EXCEPT ![t] = NoCall]
    /\ UNCHANGED <<base, logical_len, len_lock, res, nwrites>>

\* a thread calls len()
CallLen(t) ==
    /\ pc[t] = "idle"
    /\ pc' = [pc EXCEPT ![t] = "l_lock_len"]
    /\ call' = [call EXCEPT ![t] = [NoCall EXCEPT !.op = "len"]]
    /\ UNCHANGED <<base, overlay, logical_len, overlay_lock, len_lock, res, ref, hist,
                   nwrites, touched>>

\* self.logical_len.read()
LenLock(t) ==
    /\ pc[t] = "l_lock_len"
    /\ CanRead(len_lock)
    /\ len_lock' = [len_lock EXCEPT !.readers = @ \cup {t}]
    /\ pc' = [pc EXCEPT ![t] = "l_read_len"]
    /\ UNCHANGED <<base, overlay, logical_len, overlay_lock, call, res, ref, hist, nwrites, touched>>

\* *guard: the length is returned and the guard dropped
LenReturn(t) ==
    /\ pc[t] = "l_read_len"
    /\ len_lock' = [len_lock EXCEPT !.readers = @ \ {t}]
    /\ res' = [res EXCEPT ![t] = [NoRes EXCEPT !.op = "len", !.n = logical_len]]
    /\ pc' = [pc EXCEPT ![t] = "idle"]
    /\ call' = [call EXCEPT ![t] = NoCall]
    /\ UNCHANGED <<base, overlay, logical_len, overlay_lock, ref, hist, nwrites, touched>>

NextConc ==
  /\ UNCHANGED <<fileVars, pfscVars, inodeVars, dirVars, hdrVars, layerVars, openVars>>
  /\
    \/ \E t \in Readers, offset \in Offsets, buflen \in BufLens : CallRead(t, offset, buflen)
    \/ \E t \in Threads : ReadLockLen(t)
    \/ \E t \in Threads : ReadLen(t)
    \/ \E t \in Threads : ReadLockOverlay(t)
    \/ \E t \in Threads : ReadPatch(t)
    \/ \E t \in Threads : ReadReturn(t)
    \/ \E t \in Writers, offset \in Offsets, data \in WriteDataOf(nwrites) :
            CallWrite(t, offset, data)
    \/ \E t \in Threads : WriteLockOverlay(t)
    \/ \E t \in Threads : WriteLockLen(t)
    \/ \E t \in Threads : WriteUpdateLen(t)
    \/ \E t \in Threads : WriteMerge(t)

SpecConc == Init /\ [][NextConc]_vars

----------------------------------------------------------------------------
(* Every thread calls read_at, len and write_at; a thread that can go on    *)
(* does, and a lock that is free again and again is taken by who waits      *)

\* the calls made: the locks are taken whatever the offsets and the bytes.
\* At offset 0 a read goes on to the segment map and a write takes both
\* locks; at U64_MAX a read returns after the length
\* and a write before any lock
LiveOffsets == {0, U64_MAX}
LiveBufLens == {1}
LiveData == {DataOf(3, 1)}

\* RwLock::read and RwLock::write of thread t
Acquire(t) ==
    /\ \/ ReadLockLen(t) \/ ReadLockOverlay(t) \/ LenLock(t)
       \/ WriteLockOverlay(t) \/ WriteLockLen(t)
    /\ UNCHANGED <<fileVars, pfscVars, inodeVars, dirVars, hdrVars, layerVars, openVars>>

\* the steps of thread t that wait for nothing
Proceed(t) ==
    /\ \/ ReadLen(t) \/ ReadPatch(t) \/ ReadReturn(t) \/ LenReturn(t)
       \/ WriteUpdateLen(t) \/ WriteMerge(t)
    /\ UNCHANGED <<fileVars, pfscVars, inodeVars, dirVars, hdrVars, layerVars, openVars>>

NextLive ==
  /\ UNCHANGED <<fileVars, pfscVars, inodeVars, dirVars, hdrVars, layerVars, openVars>>
  /\
    \/ \E t \in Threads, offset \in LiveOffsets, buflen \in LiveBufLens :
            CallRead(t, offset, buflen)
    \/ \E t \in Threads, offset \in LiveOffsets, data \in LiveData :
            CallWrite(t, offset, data)
    \/ \E t \in Threads : CallLen(t)
    \/ \E t \in Threads : Acquire(t)
    \/ \E t \in Threads : Proceed(t)

LiveFairness == \A t \in Threads : WF_vars(Proceed(t)) /\ SF_vars(Acquire(t))

\* a CowImage over a base of one byte
InitLive == Init /\ base = BaseOf(1)

SpecLive == InitLive /\ [][NextLive]_vars /\ LiveFairness

----------------------------------------------------------------------------
(* Specification of file reads *)

CowIdle ==
    /\ base = <<>>
    /\ overlay = <<>>
    /\ logical_len = 0
    /\ overlay_lock = Unlocked
    /\ len_lock = Unlocked
    /\ pc = [t \in Threads |-> "idle"]
    /\ call = [t \in Threads |-> NoCall]
    /\ res = [t \in Threads |-> NoRes]
    /\ ref = <<>>
    /\ hist = [t \in Threads |-> NoHist]
    /\ nwrites = 0
    /\ touched = {}

InitFile == FileInit /\ CowIdle /\ PfscIdle /\ InodeIdle /\ DirIdle /\ HdrIdle /\ LayerIdle /\ OpenIdle

NextFile ==
    /\ \E offset \in 0..(pfs.size + 1), buflen \in 0..(MaxBuf + 1) : FileReadAt(offset, buflen)
    /\ UNCHANGED <<cowVars, pfscVars, inodeVars, dirVars, hdrVars, layerVars, openVars>>

SpecFile == InitFile /\ [][NextFile]_vars

----------------------------------------------------------------------------
(* Specification of PFSC reads *)

InitPfsc == PfscInit /\ CowIdle /\ FileIdle /\ InodeIdle /\ DirIdle /\ HdrIdle /\ LayerIdle /\ OpenIdle

NextPfsc ==
    /\ \/ PfscOpen
       \/ \E offset \in 0..(Len(orig) + 1), buflen \in 0..(MaxBuf + 2) :
             PfscReadAt(offset, buflen)
    /\ UNCHANGED <<cowVars, fileVars, inodeVars, dirVars, hdrVars, layerVars, openVars>>

SpecPfsc == InitPfsc /\ [][NextPfsc]_vars

----------------------------------------------------------------------------
(* Specification of block-map resolution *)

InitInode == InodeInit /\ CowIdle /\ FileIdle /\ PfscIdle /\ DirIdle /\ HdrIdle /\ LayerIdle /\ OpenIdle

NextInode ==
    /\ PrecomputeBlockMap
    /\ UNCHANGED <<cowVars, fileVars, pfscVars, dirVars, hdrVars, layerVars, openVars>>

SpecInode == InitInode /\ [][NextInode]_vars

----------------------------------------------------------------------------
(* Specification of directory listing *)

InitDir == DirInit /\ CowIdle /\ FileIdle /\ PfscIdle /\ InodeIdle /\ HdrIdle /\ LayerIdle /\ OpenIdle

NextDir ==
    /\ DirOpen
    /\ UNCHANGED <<cowVars, fileVars, pfscVars, inodeVars, hdrVars, layerVars, openVars>>

SpecDir == InitDir /\ [][NextDir]_vars

----------------------------------------------------------------------------
(* Specification of superblock parsing *)

InitHdr == HdrInit /\ CowIdle /\ FileIdle /\ PfscIdle /\ InodeIdle /\ DirIdle /\ LayerIdle /\ OpenIdle

NextHdr ==
    /\ HdrFromBytes
    /\ UNCHANGED <<cowVars, fileVars, pfscVars, inodeVars, dirVars, layerVars, openVars>>

SpecHdr == InitHdr /\ [][NextHdr]_vars

----------------------------------------------------------------------------
(* Specification of positional reads on every layer *)

InitLayers == LayerInit /\ CowIdle /\ FileIdle /\ PfscIdle /\ InodeIdle /\ DirIdle /\ HdrIdle /\ OpenIdle

NextLayers ==
    /\ \/ \E offset \in Offsets, buflen \in BufLens : ReadUnencrypted(offset, buflen)
       \/ \E offset \in EncOffsets, buflen \in EncBufLens :
             sbuf = NoSector /\ ReadEncrypted(offset, buflen)
       \/ \E offset \in 0..(MaxOrig + 1), buflen \in 0..(MaxBuf + 1) :
             ReadPfsc(offset, buflen)
       \/ \E offset \in Offsets, buflen \in BufLens : ReadCow(offset, buflen)
       \/ \E offset \in 0..(MaxMapLen * 4 + 1), buflen \in 0..(MaxBuf + 1) :
             ReadPfsFile(offset, buflen)
       \/ \E sector_index \in SectorIndexes, sector_data \in SectorInputs :
             lread = NoLayerRead /\ EncryptSectorCall(sector_index, sector_data)
       \/ \E sector_index \in SectorIndexes : DecryptSectorCall(sector_index)
       \/ ReadSectorBack
    /\ UNCHANGED <<cowVars, fileVars, pfscVars, inodeVars, dirVars, hdrVars, openVars>>

SpecLayers == InitLayers /\ [][NextLayers]_vars

----------------------------------------------------------------------------
(* Specification of opening a Pfs and walking it *)

InitOpen == OpenInit /\ CowIdle /\ FileIdle /\ PfscIdle /\ InodeIdle /\ DirIdle /\ HdrIdle /\ LayerIdle

NextOpen ==
    /\ \/ OpenCall
       \/ Root
       \/ \E h \in handles : OpenDirectory(h)
       \/ \E h \in handles : AsSlice(h)
       \/ \E h \in handles : ReadWhole(h)
    /\ UNCHANGED <<cowVars, fileVars, pfscVars, inodeVars, dirVars, hdrVars, layerVars>>

SpecOpen == InitOpen /\ [][NextOpen]_vars

----------------------------------------------------------------------------
(* Claims about one thread's calls (Spec) *)

\* C1: read-after-write. After any sequence of successful writes, a read at
\* an offset below the logical length, with any buffer length, succeeds and
\* returns exactly the bytes of the reference image (the writes layered onto
\* the base in call order, never-written bytes beyond the base being zero).
C1_ReadAfterWrite ==
    (res[1].op = "read" /\ res[1].offset < logical_len) =>
        /\ res[1].ok
        /\ res[1].n = Len(res[1].bytes)
        /\ res[1].bytes = Expected(ref, res[1].offset, res[1].buflen)

\* C1 witness: a read returned a base byte next to a byte of a segment that
\* was merged from an earlier segment and a later write.
C1_Witness ==
    /\ res[1].op = "read"
    /\ res[1].n = 2
    /\ res[1].bytes[1] \in {1, 2}
    /\ res[1].bytes[2] \in DataBytes
    /\ \E k \in DOMAIN overlay : Len(overlay[k]) >= 3 /\ overlay[k][1] = overlay[k][2]

\* no two segments overlap or touch
Canonical(ov) == \A a, b \in DOMAIN ov : a < b => SegEnd(ov, a) < b

\* the segments a write of n bytes at offset overlaps or touches
Touching(ov, offset, n) == {k \in DOMAIN ov : k <= offset + n /\ SegEnd(ov, k) >= offset}

\* a step that is a successful non-empty write leaves, in place of the
\* segments it overlaps or touches, one segment spanning them and the write
OneSegmentInPlace ==
    (res'[1].op = "write" /\ res'[1].ok /\ Len(res'[1].data) > 0) =>
        LET offset == res'[1].offset
            n == Len(res'[1].data)
            T == Touching(overlay, offset, n)
            lo == SetMin(T \cup {offset})
            hi == SetMax({SegEnd(overlay, k) : k \in T} \cup {offset + n})
        IN  /\ DOMAIN overlay' = ((DOMAIN overlay) \ T) \cup {lo}
            /\ Cardinality(DOMAIN overlay') = Cardinality(DOMAIN overlay) - Cardinality(T) + 1
            /\ SegEnd(overlay', lo) = hi
            /\ \A k \in (DOMAIN overlay) \ T : overlay'[k] = overlay[k]

\* C2: segment canonicalization. In every state no two overlay segments
\* overlap or are adjacent (the end of the lower is strictly below the start
\* of the higher), and a write that overlaps or touches k segments leaves
\* exactly one segment in their place.
C2_Canonical == [](Canonical(overlay)) /\ [][OneSegmentInPlace]_vars

\* C2 witness: a write has just replaced two segments by one, which is now
\* the only segment.
C2_Witness ==
    /\ res[1].op = "write"
    /\ res[1].merged = 2
    /\ Cardinality(DOMAIN overlay) = 1

\* a step that is an empty write changes neither the segments nor the length
EmptyWriteIsNoop ==
    (res'[1].op = "write" /\ Len(res'[1].data) = 0) =>
        (overlay' = overlay /\ logical_len' = logical_len)

\* C3: len() is never below the base length, never decreases, equals the
\* maximum of the base length and the ends of all non-empty writes (the
\* length of the reference image), and an empty write changes nothing.
C3_Length ==
    /\ [](logical_len >= Len(base) /\ logical_len = Len(ref))
    /\ [][logical_len' >= logical_len]_vars
    /\ [][EmptyWriteIsNoop]_vars

\* C3 witness: the image has grown past its base, a later write ended below
\* the length, and the last call was an empty write at the highest offset.
C3_Witness ==
    /\ logical_len > Len(base)
    /\ res[1].op = "write"
    /\ Len(res[1].data) = 0
    /\ res[1].offset = U64_MAX
    /\ \E k \in DOMAIN overlay : SegEnd(overlay, k) < logical_len

\* a step that is a write whose end does not fit returns InvalidInput and
\* leaves the segments and the length as they were
OverflowRefused ==
    (/\ res'[1].op = "write"
     /\ Len(res'[1].data) > 0
     /\ res'[1].offset + Len(res'[1].data) > U64_MAX) =>
        /\ ~res'[1].ok
        /\ res'[1].err = "InvalidInput"
        /\ overlay' = overlay
        /\ logical_len' = logical_len

\* C22: write_at(offset, data) whose end offset + data.len() does not fit
\* in 64 bits returns an InvalidInput error, and the segment map and the
\* logical length are exactly as before the call
C22_WriteOverflow == [][OverflowRefused]_vars

\* C22 witness: a write at the highest offset was refused on an image that
\* holds a segment and has grown past its base
C22_Witness ==
    /\ res[1].op = "write"
    /\ res[1].err = "InvalidInput"
    /\ res[1].offset = U64_MAX
    /\ overlay # <<>>
    /\ logical_len > Len(base)

\* a step that is a write failed by the base image leaves the segments and
\* the length as they were
BaseErrorLeavesState ==
    (res'[1].op = "write" /\ res'[1].err = "Other") =>
        /\ overlay' = overlay
        /\ logical_len' = logical_len

\* C27: when write_at returns an error because reading the base image fails
\* (an I/O error other than UnexpectedEof) while merging with existing
\* segments, the segment map and the logical length are as before the call
C27_WriteFailureAtomic == [][BaseErrorLeavesState]_vars

\* the offsets the segments cover
Footprint(ov) == UNION {k..(SegEnd(ov, k) - 1) : k \in DOMAIN ov}

\* C29: after any sequence of successful writes the offsets the segments
\* cover are exactly the offsets of the non-empty writes, no byte that was
\* never touched is stored, overlay_bytes() is the number of those offsets
\* and overlay_segments() lists the segments by ascending offset
C29_DirtyFootprint ==
    /\ Footprint(overlay) = touched
    /\ OverlayBytes(overlay) = Cardinality(touched)
    /\ LET segs == OverlaySegments(overlay) IN
       /\ Len(segs) = OverlaySegmentCount(overlay)
       /\ \A i \in 1..Len(segs) : overlay[segs[i][1]] = segs[i][2]
       /\ \A i \in 1..(Len(segs) - 1) : segs[i][1] < segs[i + 1][1]

\* a write merged with a segment it touches, next to a second segment with
\* a never-touched offset between them
C29_Witness ==
    /\ res[1].op = "write" /\ res[1].ok /\ res[1].merged >= 1
    /\ OverlaySegmentCount(overlay) = 2
    /\ OverlayBytes(overlay) >= 3
    /\ \E i \in 0..U64_MAX : i \notin touched /\ (i + 1) \in touched /\ (i - 1) \in touched

----------------------------------------------------------------------------
(* Claims about concurrent calls (SpecConc) *)

\* C4: write visibility. A read that began after writes had returned is
\* clamped against a length that includes those writes, and returns, at
\* every offset that no write finishing later has covered, the byte of the
\* reference image as it stood when the read began (which holds the bytes
\* of every write that had returned by then).
C4_WriteVisible ==
    \A t \in Threads : pc[t] = "r_done" =>
        LET r == res[t]
            h == hist[t]
            lenAtCall == Len(h.refAtCall)
        IN  /\ r.ok
            /\ (r.buflen > 0 /\ r.offset < lenAtCall) =>
                   r.n >= Min(r.buflen, lenAtCall - r.offset)
            /\ \A i \in 1..r.n :
                   LET p == r.offset + i - 1 IN
                   (p < lenAtCall /\ p \notin h.dirty) => r.bytes[i] = h.refAtCall[p + 1]

\* C4 witness: a read that began after a write had extended the image
\* returns a byte of that write beyond the base, while another write that
\* finished during the read covered a different offset of the result.
C4_Witness ==
    \E t \in Threads :
        /\ pc[t] = "r_done"
        /\ Len(hist[t].refAtCall) > Len(base)
        /\ \E i \in 1..res[t].n :
               /\ res[t].offset + i - 1 >= Len(base)
               /\ res[t].offset + i - 1 \notin hist[t].dirty
               /\ res[t].bytes[i] \in DataBytes
        /\ \E i \in 1..res[t].n : res[t].offset + i - 1 \in hist[t].dirty

\* C5 (fails): no torn reads. Every finished read returns what the same read
\* returns when run alone against one of the (segment map, logical length)
\* states that existed between its call and its return.
C5_NoTornRead ==
    \A t \in Threads : pc[t] = "r_done" =>
        \E s \in hist[t].seen :
            LET alone == CowReadAt(base, s[1], s[2], res[t].offset, res[t].buflen) IN
            /\ alone.ok = res[t].ok
            /\ alone.n = res[t].n
            /\ alone.bytes = res[t].bytes

----------------------------------------------------------------------------
(* Claims about file reads (SpecFile) *)

\* the image byte that backs file offset p
BackingByte(p, q) == p.image[p.block_map[(q \div p.block_size) + 1] * p.block_size
                             + (q % p.block_size) + 1]

\* C6: File.read_at returns 0 for an empty buffer or an offset at or past
\* the size; otherwise, on success, it returns exactly min(buf.len(),
\* size - offset) bytes, the byte at file offset q being the image byte at
\* block_map[q / block_size] * block_size + q % block_size, each positional
\* read on the image staying inside one logical block and below the file
\* size; it fails when an offset of the range lies outside the block map.
C6_FileReadAt ==
    fread.op = "read" =>
        LET want == Min(fread.buflen, pfs.size - fread.offset)
            bs == pfs.block_size
        IN  IF fread.buflen = 0 \/ fread.offset >= pfs.size
            THEN fread.ok /\ fread.n = 0 /\ fread.reads = <<>>
            ELSE /\ fread.ok =>
                    /\ fread.n = want
                    /\ Len(fread.bytes) = want
                    /\ \A i \in 1..want :
                           fread.bytes[i] = BackingByte(pfs, fread.offset + i - 1)
                    /\ \A k \in 1..Len(fread.reads) :
                           LET rd == fread.reads[k] IN
                           /\ rd[3] >= 1
                           /\ rd[1] \div bs = (rd[1] + rd[3] - 1) \div bs
                           /\ rd[1] + rd[3] <= pfs.size
                           /\ rd[2] = pfs.block_map[(rd[1] \div bs) + 1] * bs + (rd[1] % bs)
                 /\ (\E q \in fread.offset..(fread.offset + want - 1) :
                        q \div bs >= Len(pfs.block_map)) => ~fread.ok

\* C6 witness: a successful read that starts inside one block and ends in
\* the next, whose blocks are not neighbours in the image.
C6_Witness ==
    /\ fread.op = "read"
    /\ fread.ok
    /\ Len(fread.reads) = 2
    /\ fread.offset % pfs.block_size # 0
    /\ pfs.block_map[2] # pfs.block_map[1] + 1
    /\ fread.offset + fread.n = pfs.size
    /\ fread.buflen > fread.n

----------------------------------------------------------------------------
(* Claims about the locks of CowImage (SpecLive) *)

\* thread t holds the lock
Holds(lock, t) == lock.writer = t \/ t \in lock.readers

\* thread t waits for the lock of the segment map / of the length
WaitsOverlay(t) == pc[t] \in {"r_lock_overlay", "w_lock_overlay"}
WaitsLen(t) == pc[t] \in {"r_lock_len", "l_lock_len", "w_lock_len"}

\* the locks are taken in one order: who waits for the segment map holds no
\* lock, and who waits for the length holds at most the segment map
LockOrder ==
    \A t \in Threads :
        /\ WaitsOverlay(t) => ~Holds(len_lock, t) /\ ~Holds(overlay_lock, t)
        /\ WaitsLen(t) => ~Holds(len_lock, t)

\* a thread that takes a lock for reading waits only for a writer
ReadersGoOn ==
    \A t \in Threads :
        /\ pc[t] \in {"r_lock_len", "l_lock_len"} /\ len_lock.writer = 0 =>
               ENABLED Acquire(t)
        /\ pc[t] = "r_lock_overlay" /\ overlay_lock.writer = 0 =>
               ENABLED Acquire(t)

\* a writer holds a lock alone, and waits while anybody holds it
WriterExcludes ==
    /\ \A lock \in {overlay_lock, len_lock} : lock.writer # 0 => lock.readers = {}
    /\ \A t \in Threads :
           /\ pc[t] = "w_lock_overlay" /\ overlay_lock # Unlocked =>
                  ~ENABLED Acquire(t)
           /\ pc[t] = "w_lock_len" /\ len_lock # Unlocked => ~ENABLED Acquire(t)

\* some thread in a call can take a step
NoDeadlock ==
    (\E t \in Threads : pc[t] # "idle") =>
        \E t \in Threads : ENABLED (Acquire(t) \/ Proceed(t))

ReadersTogether == overlay_lock.readers = Threads

----------------------------------------------------------------------------
(* Claims about PFSC reads (SpecPfsc) *)

\* C7: for a PFSC image built from original data D of length L (any L, also
\* one that is not a multiple of the block size), read_at(o, buf of length
\* r) with o < L and r <= L - o succeeds and returns r bytes equal to
\* D[o..o+r]; the final block is trimmed to L and len() equals L.
C7_PfscEquality ==
    /\ pfsc.state \in {"closed", "open"}
    /\ pfsc.state = "open" => PfscLen(pfsc) = Len(orig)
    /\ (pread.op = "read" /\ pread.offset < Len(orig)
            /\ pread.buflen <= Len(orig) - pread.offset) =>
        /\ pread.ok
        /\ pread.n = pread.buflen
        /\ pread.bytes = SubSeq(orig, pread.offset + 1, pread.offset + pread.buflen)

\* the same, for original data whose length is a multiple of the block size
PfscEqualityWholeBlocks ==
    (pfsc.state = "open" /\ Len(orig) % pfsc.block_size = 0) => C7_PfscEquality

\* the N of the offset table: floor(original_size / original_block_size) + 1
TableBlocks == pfsc.original_size \div pfsc.original_block_size + 1

\* the read decodes a block whose index + 1 lies past the table
DecodesPastTable ==
    /\ pread.op = "read" /\ pread.buflen > 0 /\ pread.offset < pfsc.original_size
    /\ \E num \in (pread.offset \div pfsc.block_size)
                      ..((pread.offset + pread.buflen - 1) \div pfsc.block_size) :
          /\ num * pfsc.block_size < pfsc.original_size
          /\ num + 1 >= Len(pfsc.compressed_blocks)

\* C26: open loads a table of N + 1 offsets, N = floor(original_size /
\* original_block_size) + 1, so that every block i < N has entry[i] and
\* entry[i + 1]; decoding a block whose index + 1 lies past the table fails
\* with an error
C26_OffsetTable ==
    pfsc.state = "open" =>
        /\ Len(pfsc.compressed_blocks) = TableBlocks + 1
        /\ \A i \in 0..(TableBlocks - 1) : i + 2 <= Len(pfsc.compressed_blocks)
        /\ DecodesPastTable => ~pread.ok

\* the table open loads has N offsets, and a read that decodes a block
\* whose index + 1 lies past them fails with InvalidInput
OffsetTableLoaded ==
    pfsc.state = "open" =>
        /\ Len(pfsc.compressed_blocks) = TableBlocks
        /\ DecodesPastTable => ~pread.ok /\ pread.err = "InvalidInput"

----------------------------------------------------------------------------
(* Claims about block maps (SpecInode) *)

\* C8: for every inode of a successfully opened Pfs the precomputed block
\* map has length exactly inode.block_count, on every path of
\* load_block_map that returns Ok.
C8_MapLength ==
    bmap.state = "ok" => Len(bmap.blocks) = inode.blocks

\* C9: contiguous inode: if direct[1] is 0xFFFFFFFF and block_count N > 0,
\* the block map is exactly the N 32-bit block numbers direct[0],
\* direct[0] + 1, ..., direct[0] + N - 1, for every direct[0] and N (also
\* when direct[0] + N does not fit in 32 bits), and no indirect block is read.
C9_Contiguous ==
    (bmap.state # "none" /\ inode.direct_blocks[2] = ContiguousMark /\ inode.blocks > 0) =>
        /\ bmap.state = "ok"
        /\ bmap.blocks = [i \in 1..inode.blocks |->
                             (inode.direct_blocks[1] + i - 1) % (U32_MAX + 1)]
        /\ bmap.reads = <<>>

\* the same, for the inodes whose direct[0] + N fits in 32 bits
ContiguousInRange ==
    inode.direct_blocks[1] + inode.blocks <= U32_MAX => C9_Contiguous

\* entries per block: floor(block_size / entry size)
EntriesPerBlock == fs.block_size \div (IF inode.signed THEN 36 ELSE 4)

\* pointer entry k (from 0) of the block numbered indirect[0]
IndirectEntry(k) ==
    LET at == inode.indirect_blocks[1] * fs.block_size
              + k * (IF inode.signed THEN 36 ELSE 4) + (IF inode.signed THEN 32 ELSE 0)
    IN  FromLE(SubSeq(fs.image, at + 1, at + 4))

\* C10: non-contiguous inode with single indirection: with
\* E = floor(block_size / entry size) and block_count N <= 12 + E, the block
\* map equals direct[0..min(N, 12)] followed by the first N - 12 pointer
\* entries of the block numbered indirect[0], in order, an entry being 4
\* bytes for unsigned inodes and 36 bytes (pointer at byte 32) for signed
\* ones; indirect[0] is not read when N <= 12.
C10_SingleIndirect ==
    (bmap.state # "none" /\ inode.direct_blocks[2] # ContiguousMark
        /\ inode.blocks > 0 /\ inode.blocks <= 12 + EntriesPerBlock) =>
        /\ inode.blocks <= 12 =>
              /\ bmap.state = "ok"
              /\ bmap.reads = <<>>
              /\ bmap.blocks = SubSeq(inode.direct_blocks, 1, inode.blocks)
        /\ inode.blocks > 12 =>
              /\ bmap.state \in {"ok", "Read"}
              /\ bmap.reads = <<inode.indirect_blocks[1] * fs.block_size>>
              /\ bmap.state = "ok" <=>
                    (inode.indirect_blocks[1] + 1) * fs.block_size <= Len(fs.image)
              /\ bmap.state = "ok" =>
                    bmap.blocks = inode.direct_blocks
                                  \o [k \in 1..(inode.blocks - 12) |-> IndirectEntry(k - 1)]

\* C10 witness: a signed inode whose map takes two of the three entries of
\* its indirect block
C10_Witness ==
    /\ bmap.state = "ok"
    /\ inode.signed
    /\ inode.direct_blocks[2] # ContiguousMark
    /\ inode.blocks = 14
    /\ EntriesPerBlock = 3
    /\ inode.indirect_blocks[1] = 1
    /\ bmap.blocks[14] # bmap.blocks[13]

\* pointer entry k (from 0) of the block numbered b
EntryOf(b, k) ==
    LET at == b * fs.block_size
              + k * (IF inode.signed THEN 36 ELSE 4) + (IF inode.signed THEN 32 ELSE 0)
    IN  FromLE(SubSeq(fs.image, at + 1, at + 4))

\* the block numbered b lies inside the image
BlockInImage(b) == (b + 1) * fs.block_size <= Len(fs.image)

\* leaf pointer k (from 0) reached through the block numbered indirect[1]
LeafOf(k) ==
    EntryOf(EntryOf(inode.indirect_blocks[2], k \div EntriesPerBlock), k % EntriesPerBlock)

\* the blocks a double-indirect walk over the first n leaves reads lie
\* inside the image
WalkInImage(n) ==
    /\ BlockInImage(inode.indirect_blocks[1])
    /\ BlockInImage(inode.indirect_blocks[2])
    /\ \A k \in 0..(n - 1) :
          BlockInImage(EntryOf(inode.indirect_blocks[2], k \div EntriesPerBlock))

\* C11: double indirection and its limit: for a non-contiguous inode with E
\* pointer entries per block, if 12 + E < block_count <= 12 + E + E * E the
\* block map is the direct pointers, the E single-indirect pointers and then
\* the leaf pointers reached through the block indirect[1], in order; if
\* block_count > 12 + E + E * E the call fails with
\* DoubleIndirectBlockNotSupported and never returns a truncated map. (The
\* blocks walked are blocks of the image; a block outside it is a read error.)
C11_DoubleIndirect ==
    (bmap.state # "none" /\ inode.direct_blocks[2] # ContiguousMark
        /\ inode.blocks > 12 + EntriesPerBlock) =>
        LET E == EntriesPerBlock
            leaves == inode.blocks - 12 - E
        IN  /\ bmap.state \in {"ok", "Read", "DoubleIndirectBlockNotSupported"}
            /\ leaves <= E * E =>
                  /\ WalkInImage(leaves) => bmap.state = "ok"
                  /\ bmap.state # "DoubleIndirectBlockNotSupported"
                  /\ bmap.state = "ok" =>
                        bmap.blocks = inode.direct_blocks
                                      \o [k \in 1..E |-> EntryOf(inode.indirect_blocks[1], k - 1)]
                                      \o [k \in 1..leaves |-> LeafOf(k - 1)]
            /\ leaves > E * E =>
                  /\ bmap.state # "ok"
                  /\ WalkInImage(E * E) => bmap.state = "DoubleIndirectBlockNotSupported"

\* C11 witness: a signed inode with three entries per block whose map ends
\* with leaves of the second block named by indirect[1]
C11_Witness ==
    /\ bmap.state = "ok"
    /\ inode.signed
    /\ EntriesPerBlock = 3
    /\ inode.blocks = 19
    /\ Len(bmap.reads) = 4
    /\ bmap.blocks[19] # bmap.blocks[16]

\* an inode past the limit of double indirection fails with the error for it
PastDoubleIndirect ==
    /\ bmap.state = "DoubleIndirectBlockNotSupported"
    /\ EntriesPerBlock = 2
    /\ inode.blocks = 19

----------------------------------------------------------------------------
(* Claims about directory listing (SpecDir) *)

\* the dirents of the directory in block-map order
Seen == Concat(dirents)

\* the dirent names a file or a directory
IsEntry(d) == d.ty = DirentFile \/ d.ty = DirentDirectory

\* the dirent's record size holds its header and name and stays in the block
WellSized(d) == d.entsize >= DirentHeaderSize + Len(d.name) /\ d.entsize <= DirentSize

\* the dirent passes every check of Directory::open
Accepted(d) ==
    /\ WellSized(d)
    /\ d.ino < dpfs.inode_count
    /\ d.ty \in {DirentFile, DirentDirectory, DirentSelf, DirentParent}

\* every block of the directory is in the image
BlocksReadable ==
    \A i \in 1..Len(dpfs.block_map) :
        (dpfs.block_map[i] + 1) * dpfs.block_size <= Len(dpfs.image)

\* dirent j is reached: the blocks are read and every dirent before it passes
Reached(j) == BlocksReadable /\ \A k \in 1..(j - 1) : Accepted(Seen[k])

\* C12: the listing is in strictly ascending byte order of the names, so no
\* name is twice in it; it has exactly the names of the file and directory
\* dirents, each with the entry of the last dirent of that name in
\* block-map order
C12_DirectoryOrdering ==
    listing.state = "ok" =>
        /\ \A i \in 1..(Len(listing.items) - 1) :
               LexLess(listing.items[i].name, listing.items[i + 1].name)
        /\ \A i, j \in 1..Len(listing.items) :
               listing.items[i].name = listing.items[j].name => i = j
        /\ \A j \in 1..Len(Seen) :
               IsEntry(Seen[j]) =>
                   \E i \in 1..Len(listing.items) : listing.items[i].name = Seen[j].name
        /\ \A i \in 1..Len(listing.items) :
               \E j \in 1..Len(Seen) :
                   /\ IsEntry(Seen[j])
                   /\ Seen[j].name = listing.items[i].name
                   /\ Seen[j].ino = listing.items[i].entry.inode
                   /\ (Seen[j].ty = DirentFile) = (listing.items[i].entry.kind = "File")
                   /\ \A k \in (j + 1)..Len(Seen) :
                          IsEntry(Seen[k]) => Seen[k].name # Seen[j].name
        /\ Names(listing.items) = [i \in 1..Len(listing.items) |-> listing.items[i].name]

\* a listing of two names, one of them written in both blocks of the
\* directory with different entries
C12_Witness ==
    /\ listing.state = "ok"
    /\ Len(listing.items) = 2
    /\ Len(dirents) = 2
    /\ \E a \in 1..Len(dirents[1]), b \in 1..Len(dirents[2]) :
           /\ IsEntry(dirents[1][a]) /\ IsEntry(dirents[2][b])
           /\ dirents[1][a].name = dirents[2][b].name
           /\ dirents[1][a].ino # dirents[2][b].ino

SkipsSelfAndParent ==
    /\ listing.state = "ok"
    /\ Len(listing.items) = 1
    /\ \E j, k \in 1..Len(Seen) : Seen[j].ty = DirentSelf /\ Seen[k].ty = DirentParent

\* the dirent's record size is not zero and is below its header and name
Undersized(d) == d.entsize # 0 /\ d.entsize < DirentHeaderSize + Len(d.name)

\* C25: a dirent that is reached and whose record size is not zero but below
\* 16 + name_length makes Directory::open return DirentInvalidSize: the
\* subtraction of padding_size does not abort and parsing does not go on
C25_DirentSizeValidation ==
    listing.state # "none" =>
        \A j \in 1..Len(Seen) :
            Reached(j) /\ Undersized(Seen[j]) => listing.state = "DirentInvalidSize"

----------------------------------------------------------------------------
(* Claims about superblock parsing (SpecHdr) *)

\* the conditions of acceptance, on the fields the buffer was written from
LongEnough == hdesc.len >= HEADER_SIZE
VersionOk == hdesc.version = ToLE(1, 8)
FormatOk == hdesc.format = ToLE(20130315, 8)
InodeBlocksOk == SubSeq(hdesc.ndinodeblock, 5, 8) = <<0, 0, 0, 0>>

\* the fields are in the buffer
FieldsRead == hdesc.len >= PfsHeaderRawSize

\* C18: a buffer is accepted exactly when it has 0x380 bytes or more,
\* version 1, format 20130315 and an inode block count within 32 bits; a
\* rejection names a condition that is violated, and names it whenever it
\* is the only one; on success the key seed is bytes [0x370, 0x380)
C18_HeaderParsing ==
    parsed.state # "none" =>
        /\ parsed.state = "ok" <=> LongEnough /\ VersionOk /\ FormatOk /\ InodeBlocksOk
        /\ parsed.state \in {"ok", "ReadHeaderFailed", "InvalidVersion", "InvalidFormat",
                             "TooManyInodeBlocks", "ReadKeySeedFailed"}
        /\ parsed.state \in {"ReadHeaderFailed", "ReadKeySeedFailed"} => ~LongEnough
        /\ parsed.state = "InvalidVersion" => ~VersionOk
        /\ parsed.state = "InvalidFormat" => ~FormatOk
        /\ parsed.state = "TooManyInodeBlocks" => ~InodeBlocksOk
        /\ ~LongEnough /\ VersionOk /\ FormatOk /\ InodeBlocksOk
               => parsed.state = IF FieldsRead THEN "ReadKeySeedFailed"
                                 ELSE "ReadHeaderFailed"
        /\ LongEnough /\ ~VersionOk /\ FormatOk /\ InodeBlocksOk
               => parsed.state = "InvalidVersion"
        /\ LongEnough /\ VersionOk /\ ~FormatOk /\ InodeBlocksOk
               => parsed.state = "InvalidFormat"
        /\ LongEnough /\ VersionOk /\ FormatOk /\ ~InodeBlocksOk
               => parsed.state = "TooManyInodeBlocks"
        /\ parsed.state = "ok" =>
               /\ parsed.key_seed = SubSeq(hbuf, 881, 896)
               /\ parsed.key_seed = hdesc.key_seed

\* a buffer longer than the superblock is accepted with an inode block
\* count of u32::MAX
C18_Witness ==
    /\ parsed.state = "ok"
    /\ Len(hbuf) > HEADER_SIZE
    /\ hdesc.ndinodeblock = U32MaxField

\* a buffer of 0x370 bytes with a wrong format is rejected for the format
FormatBeforeKeySeed ==
    /\ parsed.state = "InvalidFormat"
    /\ Len(hbuf) = KeySeedOffset

----------------------------------------------------------------------------
(* Claims about positional reads on every layer (SpecLayers) *)

\* C15: on each of the five layers a read_at that does not fail returns 0
\* exactly when the buffer is empty or the offset is at or past len();
\* otherwise it returns n bytes with 1 <= n <= min(buf.len(), len() - offset)
C15_EofContract ==
    lread.op = "read" /\ lread.ok =>
        /\ lread.n = 0 <=> (lread.buflen = 0 \/ lread.offset >= lread.len)
        /\ lread.n > 0 =>
               /\ lread.n <= lread.buflen
               /\ lread.n <= lread.len - lread.offset
        /\ Len(lread.bytes) = lread.n

\* a read that ends at the end of an encrypted slice returns fewer bytes
\* than the buffer holds
C15_Witness ==
    /\ layer.kind = "EncryptedSlice"
    /\ lread.op = "read" /\ lread.ok
    /\ 1 <= lread.n /\ lread.n < lread.buflen
    /\ lread.offset + lread.n = lread.len

\* the read's range reaches the final, partial sector of the slice
ReachesPartialTail ==
    /\ layer.kind = "EncryptedSlice"
    /\ lread.op = "read"
    /\ lread.buflen > 0
    /\ lread.offset < lread.len
    /\ lread.len % XTS_BLOCK_SIZE # 0
    /\ lread.offset + lread.buflen > (lread.len \div XTS_BLOCK_SIZE) * XTS_BLOCK_SIZE

\* C16: a read_at on an EncryptedSlice whose range reaches the final,
\* partial sector returns the bytes up to the end of the data as a short
\* read, not an error
C16_PartialTail ==
    ReachesPartialTail =>
        /\ lread.ok
        /\ lread.n = Min(lread.buflen, lread.len - lread.offset)

\* a read inside whole sectors returns the plaintext
WholeSectorsDecrypt ==
    layer.kind = "EncryptedSlice" /\ lread.op = "read" /\ lread.ok /\ lread.n > 0 =>
        \A i \in 1..lread.n :
            lread.bytes[i] = IF (lread.offset + i - 1) \div XTS_BLOCK_SIZE
                                    >= layer.enc.encrypted_start
                             THEN layer.plain[lread.offset + i]
                             ELSE layer.enc.data[lread.offset + i]

\* a read that reaches the partial sector fails
PartialTailFails == ReachesPartialTail /\ ~lread.ok

\* C23: decrypt_sector undoes encrypt_sector of the same sector index; below
\* encrypted_start both leave the buffer as it is; from encrypted_start on
\* both take the 16-byte little-endian encoding of the index as the tweak,
\* the one read_at takes, so read_at returns what encrypt_sector was given
C23_SectorRoundTrip ==
    LET enc == layer.enc IN
    /\ sbuf.phase = "decrypted" /\ sbuf.dec_index = sbuf.enc_index =>
           sbuf.data = sbuf.input
    /\ sbuf.phase = "encrypted" /\ sbuf.enc_index < enc.encrypted_start =>
           sbuf.data = sbuf.input
    /\ sbuf.phase = "decrypted" /\ sbuf.enc_index < enc.encrypted_start
           /\ sbuf.dec_index < enc.encrypted_start =>
           sbuf.data = sbuf.input
    /\ sbuf.phase = "encrypted" /\ sbuf.enc_index >= enc.encrypted_start =>
           sbuf.data = XtsEncryptSector(enc.cipher, sbuf.input,
                                          ToLE(sbuf.enc_index, 16))
    /\ sbuf.phase = "decrypted" /\ sbuf.enc_index >= enc.encrypted_start
           /\ sbuf.dec_index >= enc.encrypted_start =>
           sbuf.data = XtsDecryptSector(enc.cipher,
                             XtsEncryptSector(enc.cipher, sbuf.input,
                                              ToLE(sbuf.enc_index, 16)),
                             ToLE(sbuf.dec_index, 16))
    /\ sbuf.phase # "failed"
    /\ sbuf.phase = "read" => sbuf.data = sbuf.input

\* a sector past encrypted_start that encrypt_sector changed and
\* decrypt_sector of the same index brought back
C23_Witness ==
    /\ sbuf.phase = "decrypted"
    /\ sbuf.enc_index = MaxSector /\ sbuf.dec_index = MaxSector
    /\ layer.enc.encrypted_start = 1
    /\ sbuf.data = sbuf.input
    /\ EncryptSector(layer.enc, sbuf.enc_index, sbuf.input) # sbuf.input

----------------------------------------------------------------------------
(* Claims about opening a Pfs and walking it (SpecOpen) *)

\* the call opens the image as an encrypted slice
OpensEncrypted ==
    \/ args.fn = "open_slice_encrypted"
    \/ args.fn = "open_slice" /\ disk.encrypted

\* the inodes that open loads: those written, as far as the inode blocks of
\* the superblock hold them
LoadedInodes ==
    Min(WrittenInodes, disk.ndinodeblock * InodesPerBlock(disk.signed, disk.block_size))

\* the call passes the checks on mode, key and block size
PassesChecks ==
    /\ disk.block_size > 0 /\ IsPowerOfTwo(disk.block_size)
    /\ args.fn = "open_image" => ~disk.encrypted
    /\ OpensEncrypted => disk.block_size >= 4096
    /\ args.fn = "open_slice" /\ disk.encrypted => args.ekpfs.some

\* the dirents written into the directory of an inode
DirentsOf(index) ==
    IF index = 0 THEN RootDirents(disk.root)
    ELSE IF index = 1 THEN SubDirents
    ELSE <<>>

SuperRootPastLoaded ==
    /\ opened.state = "InvalidSuperRoot"
    /\ disk.superroot < WrittenInodes
    /\ disk.superroot >= LoadedInodes

\* the inode written for the file
WrittenFile == InodesOf(disk)[3]

\* C17: as_slice is Some only on a Pfs opened from an unencrypted slice,
\* for a file that is not compressed and is empty or contiguous; the
\* slice then has inode.size bytes and starts at start_block * block_size;
\* on a Pfs from open_image or from an encrypted slice it is None
C17_ZeroCopy ==
    zc.op = "as_slice" =>
        /\ zc.result.some =>
               /\ args.fn \in {"open_slice", "open_slice_unencrypted"}
               /\ ~disk.encrypted
               /\ WrittenFile.flags % 2 = 0
               /\ \/ WrittenFile.size = 0
                  \/ /\ WrittenFile.blocks > 0
                     /\ \/ WrittenFile.direct_blocks[2] = ContiguousMark
                        \/ WrittenFile.blocks = 1
               /\ zc.result.len = WrittenFile.size
               /\ WrittenFile.size > 0 =>
                      /\ zc.result.start = WrittenFile.direct_blocks[1] * disk.block_size
                      /\ zc.result.start + zc.result.len <= Len(Data)
        /\ args.fn = "open_image" \/ OpensEncrypted => ~zc.result.some

\* the slice of a file of two blocks marked contiguous
C17_Witness ==
    /\ zc.op = "as_slice"
    /\ zc.result.some
    /\ disk.file = "marked"
    /\ zc.result.len > disk.block_size

\* as_slice is None for a contiguous file past the end of the image, and
\* Some and empty for an empty file
ZeroCopyEdges ==
    /\ zc.op = "as_slice"
    /\ \/ disk.file = "beyond" /\ ~zc.result.some /\ args.fn = "open_slice"
       \/ disk.file = "empty" /\ zc.result.some /\ zc.result.len = 0

\* the errors of the checks on mode, key and block size
GateErrors ==
    {"UnsupportedMode", "EmptyEkpfs", "EncryptionBlockSizeTooSmall", "InvalidBlockSize"}

C20_AsStated ==
    opened.state # "none" =>
        /\ args.fn = "open_image" /\ disk.encrypted => opened.state = "UnsupportedMode"
        /\ args.fn = "open_slice" /\ disk.encrypted /\ ~args.ekpfs.some
               => opened.state = "EmptyEkpfs"
        /\ args.fn \in {"open_image", "open_slice"} /\ ~disk.encrypted /\ ~args.ekpfs.some
               => opened.state \notin {"UnsupportedMode", "EmptyEkpfs",
                                       "EncryptionBlockSizeTooSmall"}
        /\ opened.state # "ok" => DOMAIN opened = {"state"} /\ handles = {}

\* C20: open_image fails with UnsupportedMode on an encrypted superblock;
\* open_slice on an encrypted superblock without a key fails with
\* EmptyEkpfs when block_size >= 4096 and with EncryptionBlockSizeTooSmall
\* below; a superblock without the encrypted bit is not refused for its
\* mode or for a missing key by either, and opens when nothing else is
\* wrong with the image; a failed open returns no Pfs
C20_Gating ==
    opened.state # "none" =>
        /\ args.fn = "open_image" /\ disk.encrypted => opened.state = "UnsupportedMode"
        /\ args.fn = "open_slice" /\ disk.encrypted /\ ~args.ekpfs.some
               => opened.state = IF disk.block_size >= 4096 THEN "EmptyEkpfs"
                                 ELSE "EncryptionBlockSizeTooSmall"
        /\ args.fn \in {"open_image", "open_slice"} /\ ~disk.encrypted /\ ~args.ekpfs.some
               => /\ opened.state \notin {"UnsupportedMode", "EmptyEkpfs",
                                          "EncryptionBlockSizeTooSmall"}
                  /\ PassesChecks /\ disk.superroot < LoadedInodes => opened.state = "ok"
        /\ opened.state # "ok" => DOMAIN opened = {"state"} /\ handles = {}

\* open_slice without a key is refused for the key on an encrypted
\* superblock whose block size is not a power of two
C20_Witness ==
    /\ opened.state = "EmptyEkpfs"
    /\ args.fn = "open_slice"
    /\ disk.block_size = 6144

\* an encrypted slice is opened with its key and its root directory listed
EncryptedTreeListed ==
    /\ opened.state = "ok"
    /\ opened.image.kind = "EncryptedSlice"
    /\ olisting.state = "ok"
    /\ Len(olisting.items) = 2

\* C21: an opened Pfs holds as many inodes as the superblock's inode count
\* (ndinode); an image whose inode blocks hold fewer inode records than
\* that does not open
C21_InodeLoading ==
    /\ opened.state = "ok" => InodeCount(opened) = HeaderOf(disk).ndinode
    /\ opened.state # "none" /\ LoadedInodes < HeaderOf(disk).ndinode
           => opened.state # "ok"

\* C24: in a Pfs that opened, the block map of every inode with size > 0
\* covers the size: block_map.len() * block_size >= size, and
\* size < (block_map.len() + 1) * block_size
C24_BlockMapCoverage ==
    opened.state = "ok" =>
        \A i \in 1..InodeCount(opened) :
            opened.inodes[i].size > 0 =>
                /\ Len(opened.block_maps[i]) * opened.block_size >= opened.inodes[i].size
                /\ opened.inodes[i].size
                       < (Len(opened.block_maps[i]) + 1) * opened.block_size

\* C30: whenever as_slice returns Some(s), read_at(0, buf) with
\* buf.len() == inode.size succeeds and fills buf with the bytes of s
C30_ReadPathsAgree ==
    zc.op = "read_at" /\ zc.result.some =>
        /\ zc.read.ok
        /\ zc.read.n = opened.inodes[zc.of.inode + 1].size
        /\ zc.read.bytes = SubSeq(Data, zc.result.start + 1,
                                  zc.result.start + zc.result.len)

\* the same, for the files whose block map covers their size
ReadPathsAgreeCovered ==
    zc.op = "read_at" =>
        (Len(opened.block_maps[zc.of.inode + 1]) * opened.block_size
             >= opened.inodes[zc.of.inode + 1].size => C30_ReadPathsAgree)

\* a file of two blocks marked contiguous, read whole through both paths
ReadPathsAgreeReached ==
    /\ zc.op = "read_at" /\ zc.result.some /\ zc.read.ok
    /\ disk.file = "marked"
    /\ zc.read.n = disk.block_size + 10

====
